---- MODULE Spec2Model ----
(***************************************************************************)
(* Stage 1 of the traffic-simulation pipeline (EventFilter):               *)
(* traffic_sim_module/pipeline/xml_to_parquet.py.                          *)
(*                                                                         *)
(* A reader process (parse_xml_to_chunks) streams the event log, pairs     *)
(* EnterLink/LeaveLink records per (person, link) and puts chunks on a     *)
(* bounded queue; a pool of workers applies filter_events_chunk to each    *)
(* chunk; the main process (write_to_parquet) appends the returned         *)
(* records to the Parquet file.                                            *)
(***************************************************************************)
EXTENDS Integers, Sequences, FiniteSets, TLC

\* ------------------------------------------------------------------ bounds

\* longest event log explored
MaxLog == 3
\* largest chunk_size explored (chunk_size ranges over 1..MaxChunk)
MaxChunk == 2
\* number of pool workers (num_workers)
NumWorkers == 2
\* longest chunk handed directly to filter_events_chunk
MaxFilterLen == 2
\* most rows of the intermediate table read by stage 2
MaxRows == 2
\* most rows of the intermediate table read by stage 3
MaxHeatRows == 2
\* largest sampling step of stage 3 (time_interval_seconds ranges over 1..MaxStep)
MaxStep == 2
\* most rows of the network table handed to the LinkIndex build
MaxLinks == 3
\* last tick of the file system clock
MaxClock == 1
\* last minute of the snapshot period's start_time and end_time
MaxMinute == 2

\* ------------------------------------------------------------------- state

VARIABLES
    log,             \* the <event> records of the XML file, in document order
    chunk_size,      \* events per chunk
    time_intervals,  \* the ordered snapshot windows (start, end)
    rpc,             \* reader: "read", "put", "sentinel", "done"
    rpos,            \* reader: index of the next record of the log
    pending_events,  \* reader: buffered EnterLink records, in arrival order
    event_list,      \* reader: the chunk being assembled
    queue,           \* mp.Queue(maxsize = num_workers * 4)
    fed,             \* pool task handler: iter(queue.get, None) is exhausted
    tasks,           \* pool: chunks dispatched, not yet taken by a worker
    running,         \* pool: the chunk each worker is filtering
    results,         \* pool: record lists returned, not yet consumed
    writer,          \* "none", "open", "closed"
    written,         \* rows of the file at output_path, in file order
                     \* (<<>> and no writer yet: there is no such file)
    mpc,             \* main process: "write", "cleanup", "done", "aborted"
    \* stage 2 (parquet_to_export)
    table,           \* the rows of the intermediate Parquet file, in file order
    export_chunk_size, \* rows per batch (chunk_size of parquet_to_export)
    output_formats,  \* the requested formats
    epc,             \* main process: "idle", "open", "loop", "done", "aborted"
    batch_pos,       \* batch_generator: index of the next row to hand out
    eworkers,        \* pool: the batch each worker is interpolating
    eresults,        \* pool: feature lists returned, not yet consumed
    writers,         \* the writers dict: handles, geojson_first, features_list
    files,           \* what each output path holds
    \* stage 3 (parquet_to_heatmap)
    df,              \* the Traversal table
    interval_seconds, \* sampling step S
    time_range,      \* the start_time and end_time arguments (NoTime: None)
    heat_workers,    \* num_workers of parquet_to_heatmap
    hpc,             \* main process: "idle", "sample", "collect", "done"
    timepoints,      \* np.arange(start_time, end_time + S, S)
    batches,         \* the timepoint batches
    outstanding,     \* indices of the batches whose result is not collected
    all_records,     \* heatmap records collected so far
    \* network loading (utils/network_cache.py)
    network_df,      \* the rows of the network table, in row order
    built,           \* what build_link_attributes_dict returned or raised
    disk,            \* the files that exist: path -> mtime and content
    clock,           \* the time the file system stamps on a write
    loaded,          \* what load_network_cached returned or raised
    \* the driver (main_pipeline.py)
    main,            \* main(): position, configuration, stages, exit code
    snap             \* generate_snapshot_intervals: arguments and locals

vars == <<log, chunk_size, time_intervals, rpc, rpos, pending_events, event_list, queue, fed,
          tasks, running, results, writer, written, mpc,
          table, export_chunk_size, output_formats, epc, batch_pos, eworkers,
          eresults, writers, files,
          df, interval_seconds, time_range, heat_workers, hpc, timepoints, batches,
          outstanding, all_records,
          network_df, built, disk, clock, loaded, main, snap>>

input_vars  == <<log, chunk_size, time_intervals>>
reader_vars == <<rpc, rpos, pending_events, event_list>>
pool_vars   == <<fed, tasks, running, results>>
main_vars   == <<writer, written, mpc>>

export_vars  == <<table, export_chunk_size, output_formats, epc, batch_pos,
                  eworkers, eresults, writers, files>>
heatmap_vars == <<df, interval_seconds, time_range, heat_workers, hpc, timepoints, batches,
                  outstanding, all_records>>
stage1_vars  == <<input_vars, reader_vars, queue, pool_vars, main_vars>>
network_vars == <<network_df, built, disk, clock, loaded>>
driver_vars  == <<main, snap>>
stages_vars  == <<stage1_vars, export_vars, heatmap_vars>>

\* ------------------------------------------------------------------ inputs

\* dict.get(k) of an attribute the XML element does not carry (Python None)
NoAttr == "<absent>"

\* valid_links: link ids of the road network (LinkIndex); "Lx" is not in it
valid_links == {"L1"}

\* the windows of the pipeline runs: the second contains the first, so they
\* overlap and share the boundary 2
TwoIntervals == << <<2, 2>>, <<2, 3>> >>

\* int(s): the decimal strings the model uses and their values; any other
\* string makes int() raise ValueError
IntStrings == {"1", "2", "3"}

IntOf(s) ==
    CASE s = "1" -> 1
      [] s = "2" -> 2
      [] s = "3" -> 3

\* attribute dictionaries of <event> elements; idx is the record's position in
\* the log (its identity, not an attribute)
WellFormed ==
    [type : {"EnterLink", "LeaveLink"}, person : {"A"},
     link : {"L1"}, time : IntStrings]

OffNetwork ==
    [type : {"EnterLink", "LeaveLink"}, person : {"A"},
     link : {"Lx"}, time : {"2"}]

BadTime ==
    [type : {"EnterLink", "LeaveLink"}, person : {"A"},
     link : {"L1"}, time : {NoAttr, "x"}]

NoPerson ==
    [type : {"EnterLink", "LeaveLink"}, person : {NoAttr},
     link : {"L1"}, time : {"2"}]

EmptyPerson ==
    [type : {"EnterLink", "LeaveLink"}, person : {""},
     link : {"L1"}, time : {"2"}]

NoLink ==
    [type : {"EnterLink", "LeaveLink"}, person : {"A"},
     link : {NoAttr}, time : {"2"}]

NoType ==
    [type : {NoAttr}, person : {"A"}, link : {"L1"}, time : {"2"}]

Attribs ==
    WellFormed \cup OffNetwork \cup BadTime \cup NoPerson \cup EmptyPerson \cup NoLink \cup NoType

WithIdx(a, i) ==
    [idx |-> i, type |-> a.type, person |-> a.person,
     link |-> a.link, time |-> a.time]

\* well-formed records on two links, with two times on the link of the network
Clean ==
    [type : {"EnterLink", "LeaveLink"}, person : {"A"},
     link : {"L1"}, time : {"2", "3"}] \cup OffNetwork

\* an EnterLink without person and a LeaveLink with an empty person: the
\* reader reads both persons as ""
MissingVsEmpty ==
    { a \in NoPerson : a.type = "EnterLink" }
    \cup { a \in EmptyPerson : a.type = "LeaveLink" }

\* every log of at most n records with attributes drawn from attribs
LogsOver(attribs, n) ==
    UNION { { [i \in 1..k |-> WithIdx(f[i], i)] : f \in [1..k -> attribs] }
            : k \in 0..n }

\* ------------------------------------------------------------ helpers

Min(a, b) == IF a <= b THEN a ELSE b

Range(s) == { s[i] : i \in DOMAIN s }

RECURSIVE Concat(_)
Concat(ss) == IF ss = <<>> THEN <<>> ELSE Head(ss) \o Concat(Tail(ss))

\* ---------------------------------------------------- filter_events_chunk

\* event.get(k)
Get(event, k) == event[k]

\* lines 138-144: `if not time_str: continue` and the ValueError of int()
time_ok(event) ==
    /\ Get(event, "time") # NoAttr
    /\ Get(event, "time") # ""
    /\ Get(event, "time") \in IntStrings

\* a plausible slip: the upper end of the interval is not tested
matched_interval_open(time_enter) ==
    LET hits == { i \in DOMAIN time_intervals :
                    time_intervals[i][1] <= time_enter }
    IN  IF hits = {} THEN 0
        ELSE CHOOSE i \in hits : \A j \in hits : i <= j

\* a plausible slip: no `break`, the last containing interval wins
matched_interval_last(time_enter) ==
    LET hits == { i \in DOMAIN time_intervals :
                    /\ time_intervals[i][1] <= time_enter
                    /\ time_enter <= time_intervals[i][2] }
    IN  IF hits = {} THEN 0
        ELSE CHOOSE i \in hits : \A j \in hits : i >= j

\* lines 156-162: index (1-based here) of the first interval containing
\* time_enter, 0 when there is none (matched_interval = None)
matched_interval(time_enter) ==
    LET hits == { i \in DOMAIN time_intervals :
                    /\ time_intervals[i][1] <= time_enter
                    /\ time_enter <= time_intervals[i][2] }
    IN  IF hits = {} THEN 0
        ELSE CHOOSE i \in hits : \A j \in hits : i <= j

\* the older two-interval variant: no clipping
clip_none(time_leave, interval_end) == time_leave

\* lines 169-170: clip LeaveLink time to the interval end
clip(time_leave, interval_end) ==
    IF time_leave > interval_end THEN interval_end ELSE time_leave

\* a plausible slip: the spatial test is left out
keep_any_link(matched, link_id) == matched # 0

\* lines 165-182: whether the pair is stored
keep(matched, link_id) == matched # 0 /\ link_id \in valid_links

\* lines 175-182: the stored record; enter and leave name the two input
\* records of the pair (history, not columns of the file)
trip(person, link_id, time_enter, time_leave, matched, enter_event, event) ==
    [person |-> person, link_id |-> link_id, time_enter |-> time_enter,
     time_leave |-> clip(time_leave, time_intervals[matched][2]),
     interval_id |-> matched - 1, event_type |-> "trip",
     enter |-> enter_event.idx, leave |-> event.idx]

\* a plausible slip: the first EnterLink of a key is kept
store_enter_first(enter_events, key, event) ==
    [k \in DOMAIN enter_events \cup {key} |->
        IF k \in DOMAIN enter_events THEN enter_events[k] ELSE event]

\* enter_events[(person, link_id)] = event
store_enter(enter_events, key, event) ==
    [k \in DOMAIN enter_events \cup {key} |->
        IF k = key THEN event ELSE enter_events[k]]

\* enter_events.pop(key)
pop_enter(enter_events, key) ==
    [k \in DOMAIN enter_events \ {key} |-> enter_events[k]]

\* lines 133-182: one iteration of `for event in chunk`
filter_event(st, event) ==
    IF ~time_ok(event) THEN st
    ELSE
      LET key == <<Get(event, "person"), Get(event, "link")>> IN
      IF Get(event, "type") = "EnterLink"
      THEN [st EXCEPT !.enter_events = store_enter(@, key, event)]
      ELSE IF Get(event, "type") = "LeaveLink" /\ key \in DOMAIN st.enter_events
      THEN
        LET enter_event == st.enter_events[key]
            time_enter  == IntOf(Get(enter_event, "time"))
            time_leave  == IntOf(Get(event, "time"))
            matched     == matched_interval(time_enter)
        IN  [enter_events |-> pop_enter(st.enter_events, key),
             filtered_records |->
                IF keep(matched, key[2])
                THEN Append(st.filtered_records,
                            trip(key[1], key[2], time_enter, time_leave,
                                 matched, enter_event, event))
                ELSE st.filtered_records]
      ELSE st

RECURSIVE filter_loop(_, _)
filter_loop(st, chunk) ==
    IF chunk = <<>> THEN st
    ELSE filter_loop(filter_event(st, Head(chunk)), Tail(chunk))

\* lines 128-187
filter_events_chunk(chunk) ==
    filter_loop([enter_events |-> <<>>, filtered_records |-> <<>>],
                chunk).filtered_records

\* ---------------------------------------------------- parse_xml_to_chunks


\* line 370: maxsize of the queue
QueueFactor == 4
maxsize == NumWorkers * QueueFactor

\* event_dict.get(k, "")
GetOr(event, k) == IF event[k] = NoAttr THEN "" ELSE event[k]

\* lines 220-224
reader_key(event) == <<GetOr(event, "person"), GetOr(event, "link")>>

\* a plausible slip: pending_events[key] is read, not popped
pending_kept(pending, key) == pending

\* pending_events.pop(key): the EnterLink records buffered under key
pending_of(pending, key) == SelectSeq(pending, LAMBDA e : reader_key(e) = key)
pending_without(pending, key) ==
    SelectSeq(pending, LAMBDA e : reader_key(e) # key)

\* a plausible slip: no buffering, every record goes straight into the chunk
reader_event_unbuffered(pending, list, event) ==
    IF GetOr(event, "type") \in {"EnterLink", "LeaveLink"}
    THEN [pending |-> pending, list |-> Append(list, event)]
    ELSE [pending |-> pending, list |-> list]

\* a plausible slip: the LeaveLink is appended before the released EnterLinks
reader_event_swapped(pending, list, event) ==
    LET key == reader_key(event) IN
    IF GetOr(event, "type") = "EnterLink"
    THEN [pending |-> Append(pending, event), list |-> list]
    ELSE IF GetOr(event, "type") = "LeaveLink"
    THEN [pending |-> SelectSeq(pending, LAMBDA e : reader_key(e) # key),
          list    |-> Append(list, event) \o
                      SelectSeq(pending, LAMBDA e : reader_key(e) = key)]
    ELSE [pending |-> pending, list |-> list]

\* lines 226-231: what one <event> element does to the reader's buffers
reader_event(pending, list, event) ==
    LET key == reader_key(event) IN
    IF GetOr(event, "type") = "EnterLink"
    THEN [pending |-> Append(pending, event), list |-> list]
    ELSE IF GetOr(event, "type") = "LeaveLink"
    THEN [pending |-> pending_without(pending, key),
          list    |-> Append(list \o pending_of(pending, key), event)]
    ELSE [pending |-> pending, list |-> list]

\* line 239
chunk_full(list, size) == Len(list) >= size

\* lines 211-255: the chunks the reader puts on the queue for a whole log
RECURSIVE reader_chunks(_, _, _, _)
reader_chunks(pending, list, rest, size) ==
    IF rest = <<>>
    THEN IF list # <<>> THEN <<list>> ELSE <<>>
    ELSE LET r == reader_event(pending, list, Head(rest)) IN
         IF chunk_full(r.list, size)
         THEN <<r.list>> \o reader_chunks(r.pending, <<>>, Tail(rest), size)
         ELSE reader_chunks(r.pending, r.list, Tail(rest), size)

\* the rows a run of stage 1 on the log l returns, chunk after chunk
RECURSIVE filter_chunks(_)
filter_chunks(chunks) ==
    IF chunks = <<>> THEN <<>>
    ELSE filter_events_chunk(Head(chunks)) \o filter_chunks(Tail(chunks))

stage1_rows(l, size) == filter_chunks(reader_chunks(<<>>, <<>>, l, size))

Chunk(c) == [none |-> FALSE, chunk |-> c]
None     == [none |-> TRUE, chunk |-> <<>>]
Idle     == [busy |-> FALSE, chunk |-> <<>>]
Busy(c)  == [busy |-> TRUE, chunk |-> c]

\* ------------------------------------------- a stage that has not started

\* start_time or end_time left as None
NoTime == -1
NoRange == [start_time |-> NoTime, end_time |-> NoTime]

\* the writers dict before any writer is opened (line 451)
NoWriters ==
    [geojson |-> "none", geojson_first |-> TRUE, csv |-> "none",
     features_list |-> <<>>]

\* the output paths before stage 2 has written anything
NoFiles == [geojson |-> <<>>, csv |-> <<>>, parquet |-> <<>>, created |-> {}]

\* main_pipeline.py lines 427-447: stage 2 is not running
ExportIdle ==
    /\ table = <<>>
    /\ export_chunk_size = 1
    /\ output_formats = {}
    /\ epc = "idle"
    /\ batch_pos = 1
    /\ eworkers = [w \in 1..NumWorkers |-> Idle]
    /\ eresults = <<>>
    /\ writers = NoWriters
    /\ files = NoFiles

\* main_pipeline.py lines 462-484: stage 3 is not running
HeatmapIdle ==
    /\ df = <<>>
    /\ interval_seconds = 1
    /\ time_range = NoRange
    /\ heat_workers = 1
    /\ hpc = "idle"
    /\ timepoints = <<>>
    /\ batches = <<>>
    /\ outstanding = {}
    /\ all_records = <<>>

\* nothing of the network is loaded
NotBuilt  == [status |-> "none", link_attrs |-> <<>>]
NotLoaded == [status |-> "none"]
NetworkIdle ==
    /\ network_df = <<>>
    /\ built = NotBuilt
    /\ disk = <<>>
    /\ clock = 0
    /\ loaded = NotLoaded

\* main() and generate_snapshot_intervals are not running
DriverIdle ==
    /\ main = [pc |-> "idle"]
    /\ snap = [pc |-> "idle"]

\* main_pipeline.py lines 380-425: stage 1 is not running
Stage1Idle ==
    /\ log = <<>>
    /\ chunk_size = 1
    /\ time_intervals = <<>>
    /\ rpc = "done"
    /\ rpos = 1
    /\ pending_events = <<>>
    /\ event_list = <<>>
    /\ queue = <<>>
    /\ fed = TRUE
    /\ tasks = <<>>
    /\ running = [w \in 1..NumWorkers |-> Idle]
    /\ results = <<>>
    /\ writer = "none"
    /\ written = <<>>
    /\ mpc = "done"

\* lines 364-379: the run starts; held is what output_path may hold
InitOver(logs, held) ==
    /\ log \in logs
    /\ chunk_size \in 1..MaxChunk
    /\ time_intervals = TwoIntervals
    /\ rpc = "read"
    /\ rpos = 1
    /\ pending_events = <<>>
    /\ event_list = <<>>
    /\ queue = <<>>
    /\ fed = FALSE
    /\ tasks = <<>>
    /\ running = [w \in 1..NumWorkers |-> Idle]
    /\ results = <<>>
    /\ writer = "none"
    /\ written \in held
    /\ mpc = "write"
    /\ ExportIdle
    /\ HeatmapIdle
    /\ NetworkIdle
    /\ DriverIdle

\* a run whose output_path names no file
InitWith(logs) == InitOver(logs, {<<>>})

\* lines 216-239: one iteration of `for event, elem in context`
ReadEvent ==
    /\ rpc = "read"
    /\ rpos <= Len(log)
    /\ LET r == reader_event(pending_events, event_list, log[rpos]) IN
        /\ pending_events' = r.pending
        /\ event_list' = r.list
        /\ rpc' = IF chunk_full(r.list, chunk_size) THEN "put" ELSE "read"
    /\ rpos' = rpos + 1
    /\ UNCHANGED <<export_vars, heatmap_vars, network_vars, driver_vars>>
    /\ UNCHANGED <<input_vars, queue, pool_vars, main_vars>>

\* lines 240-245: queue.put(event_list) blocks while the queue is full
PutChunk ==
    /\ rpc = "put"
    /\ Len(queue) < maxsize
    /\ queue' = Append(queue, Chunk(event_list))
    /\ event_list' = <<>>
    /\ rpc' = "read"
    /\ UNCHANGED <<export_vars, heatmap_vars, network_vars, driver_vars>>
    /\ UNCHANGED <<input_vars, rpos, pending_events, pool_vars, main_vars>>

\* lines 251-253: the remaining events
PutTail ==
    /\ rpc = "read"
    /\ rpos > Len(log)
    /\ event_list # <<>>
    /\ Len(queue) < maxsize
    /\ queue' = Append(queue, Chunk(event_list))
    /\ rpc' = "sentinel"
    /\ UNCHANGED <<export_vars, heatmap_vars, network_vars, driver_vars>>
    /\ UNCHANGED <<input_vars, rpos, pending_events, event_list,
                   pool_vars, main_vars>>

\* line 255: queue.put(None)
PutSentinel ==
    /\ \/ rpc = "sentinel"
       \/ rpc = "read" /\ rpos > Len(log) /\ event_list = <<>>
    /\ Len(queue) < maxsize
    /\ queue' = Append(queue, None)
    /\ rpc' = "done"
    /\ UNCHANGED <<export_vars, heatmap_vars, network_vars, driver_vars>>
    /\ UNCHANGED <<input_vars, rpos, pending_events, event_list,
                   pool_vars, main_vars>>

\* ------------------------------------------------------- write_to_parquet

\* lines 297-301: the pool's task handler draws the next chunk from
\* iter(queue.get, None) and dispatches it
TakeChunk ==
    /\ ~fed
    /\ queue # <<>>
    /\ queue' = Tail(queue)
    /\ IF Head(queue).none
       THEN fed' = TRUE /\ tasks' = tasks
       ELSE fed' = fed /\ tasks' = Append(tasks, Head(queue).chunk)
    /\ UNCHANGED <<export_vars, heatmap_vars, network_vars, driver_vars>>
    /\ UNCHANGED <<input_vars, reader_vars, running, results, main_vars>>

\* a pool worker takes the next task
StartTask(w) ==
    /\ ~running[w].busy
    /\ tasks # <<>>
    /\ running' = [running EXCEPT ![w] = Busy(Head(tasks))]
    /\ tasks' = Tail(tasks)
    /\ UNCHANGED <<export_vars, heatmap_vars, network_vars, driver_vars>>
    /\ UNCHANGED <<input_vars, reader_vars, queue, fed, results, main_vars>>

\* the worker returns filter_events_chunk((valid_links, chunk, time_intervals))
FinishTask(w) ==
    /\ running[w].busy
    /\ results' = Append(results, filter_events_chunk(running[w].chunk))
    /\ running' = [running EXCEPT ![w] = Idle]
    /\ UNCHANGED <<export_vars, heatmap_vars, network_vars, driver_vars>>
    /\ UNCHANGED <<input_vars, reader_vars, queue, fed, tasks, main_vars>>

\* lines 307-308: `if writer is None: writer = pq.ParquetWriter(output_path,
\* schema)` creates the file, or empties the one that is there
ParquetWriter(w, rows) == IF w = "none" THEN <<>> ELSE rows

\* lines 302-312: the body of `for records in pool.imap_unordered(...)`
WriteRecords ==
    /\ mpc = "write"
    /\ results # <<>>
    /\ results' = Tail(results)
    /\ IF Head(results) # <<>>
       THEN /\ writer' = "open"
            /\ written' = ParquetWriter(writer, written) \o Head(results)
       ELSE UNCHANGED <<writer, written>>
    /\ UNCHANGED <<export_vars, heatmap_vars, network_vars, driver_vars>>
    /\ UNCHANGED <<input_vars, reader_vars, queue, fed, tasks, running, mpc>>

\* a loop that ends as soon as every chunk is dispatched
Exhausted_dispatched ==
    /\ fed
    /\ tasks = <<>>

\* imap_unordered is exhausted: every dispatched chunk has been returned
Exhausted ==
    /\ fed
    /\ tasks = <<>>
    /\ \A w \in 1..NumWorkers : ~running[w].busy
    /\ results = <<>>

\* lines 317-321: finally: writer.close()
CloseWriter ==
    /\ mpc = "write"
    /\ Exhausted
    /\ writer' = IF writer = "open" THEN "closed" ELSE writer
    /\ mpc' = "cleanup"
    /\ UNCHANGED <<export_vars, heatmap_vars, network_vars, driver_vars>>
    /\ UNCHANGED <<input_vars, reader_vars, queue, pool_vars, written>>

\* lines 382-386: pool.close(); pool.join(); parser.join()
Cleanup ==
    /\ mpc = "cleanup"
    /\ rpc = "done"
    /\ mpc' = "done"
    /\ UNCHANGED <<export_vars, heatmap_vars, network_vars, driver_vars>>
    /\ UNCHANGED <<input_vars, reader_vars, queue, pool_vars, writer, written>>

Next ==
    \/ ReadEvent
    \/ PutChunk
    \/ PutTail
    \/ PutSentinel
    \/ TakeChunk
    \/ \E w \in 1..NumWorkers : StartTask(w)
    \/ \E w \in 1..NumWorkers : FinishTask(w)
    \/ WriteRecords
    \/ CloseWriter
    \/ Cleanup

\* runs on logs of well-formed records and of records whose person is
\* missing or empty
Init == InitWith(LogsOver(Clean \cup MissingVsEmpty, MaxLog))

Spec == Init /\ [][Next]_vars

\* runs on logs that also hold records with missing or malformed attributes
InitMalformed == InitWith(LogsOver(Attribs, MaxLog))

SpecMalformed == InitMalformed /\ [][Next]_vars

\* one person on the link of the network at one time, and LeaveLinks of a
\* link outside it
ChunkAttribs ==
    { a \in WellFormed : a.time = "2" }
    \cup { a \in OffNetwork : a.type = "LeaveLink" }

\* runs on logs of a few kinds of record, for the path of every chunk
InitChunks == InitWith(LogsOver(ChunkAttribs, MaxLog))

SpecChunks == InitChunks /\ [][Next]_vars

\* a Traversal written by an earlier run
StaleRow ==
    [person |-> "Z", link_id |-> "L1", time_enter |-> 2, time_leave |-> 2,
     interval_id |-> 0, event_type |-> "trip", enter |-> 0, leave |-> 0]

\* what output_path holds before the run: no file, or an earlier run's table
HeldBefore == {<<>>, <<StaleRow>>}

RerunLogs == LogsOver({ a \in WellFormed : a.time \in {"1", "2"} }, MaxLog)

\* runs whose output_path may name the file of an earlier run
InitRerun == InitOver(RerunLogs, HeldBefore)

SpecRerun == InitRerun /\ [][Next]_vars

\* -------------------------------------- filter_events_chunk on any chunk

Times == {1, 2, 3}
Windows == { w \in Times \X Times : w[1] <= w[2] }

\* every ordered list of at most two windows
WindowLists == {<<>>} \cup { <<w>> : w \in Windows } \cup (Windows \X Windows)

ChunkLogs == LogsOver(WellFormed \cup OffNetwork, MaxFilterLen)

\* the pool has been handed the whole log as one chunk
InitFilter ==
    /\ log \in ChunkLogs
    /\ chunk_size = MaxFilterLen
    /\ time_intervals \in WindowLists
    /\ rpc = "done"
    /\ rpos = Len(log) + 1
    /\ pending_events = <<>>
    /\ event_list = <<>>
    /\ queue = <<>>
    /\ fed = TRUE
    /\ tasks = <<log>>
    /\ running = [w \in 1..NumWorkers |-> Idle]
    /\ results = <<>>
    /\ writer = "none"
    /\ written = <<>>
    /\ mpc = "write"
    /\ ExportIdle
    /\ HeatmapIdle
    /\ NetworkIdle
    /\ DriverIdle

NextFilter ==
    \/ \E w \in 1..NumWorkers : StartTask(w)
    \/ \E w \in 1..NumWorkers : FinishTask(w)
    \/ WriteRecords
    \/ CloseWriter
    \/ Cleanup

SpecFilter == InitFilter /\ [][NextFilter]_vars

\* ------------------------------------------------- stage 1 with failures

\* lines 208-216: etree.iterparse raises in the reader process (unreadable
\* or malformed XML); the process dies without queue.put(None)
ReaderFail ==
    /\ rpc = "read"
    /\ rpc' = "failed"
    /\ UNCHANGED <<export_vars, heatmap_vars, network_vars, driver_vars>>
    /\ UNCHANGED <<input_vars, rpos, pending_events, event_list, queue,
                   pool_vars, main_vars>>

\* lines 303-321: Table.from_pandas or write_table raises in the loop body;
\* the finally clause closes the writer and the exception leaves
\* xml_to_parquet_filtered before pool.close(), pool.join(), parser.join()
WriterRaise ==
    /\ mpc = "write"
    /\ results # <<>>
    /\ Head(results) # <<>>
    /\ results' = Tail(results)
    /\ writer' = IF writer = "open" THEN "closed" ELSE writer
    /\ mpc' = "aborted"
    /\ UNCHANGED <<export_vars, heatmap_vars, network_vars, driver_vars>>
    /\ UNCHANGED <<input_vars, reader_vars, queue, fed, tasks, running, written>>

NextFaulty ==
    \/ Next
    \/ ReaderFail
    \/ WriterRaise

InitFaulty == InitWith(LogsOver(Clean, MaxLog))

SpecFaulty == InitFaulty /\ [][NextFaulty]_vars

\* ------------------------------------------ the reader on a long event log

\* the chunks stage 1 can hold at once: the one being assembled, the queue,
\* one per worker being filtered and one per worker awaiting the writer
InFlightChunks == 1 + maxsize + 2 * NumWorkers

\* a log longer than MaxChunk * InFlightChunks
LongLen == MaxChunk * InFlightChunks + 1

EnterA == [type |-> "EnterLink", person |-> "A", link |-> "L1", time |-> "2"]
LeaveA == [type |-> "LeaveLink", person |-> "A", link |-> "L1", time |-> "3"]

\* n EnterLink records of one vehicle on one link, then at most one LeaveLink
LongLogs ==
    { [i \in 1..n |-> WithIdx(EnterA, i)] : n \in 0..LongLen }
    \cup { [i \in 1..(n + 1) |-> WithIdx(IF i <= n THEN EnterA ELSE LeaveA, i)] :
             n \in 0..LongLen }

InitLong == InitWith(LongLogs)

\* the reader process alone: the pool has not taken anything yet
NextReader ==
    \/ ReadEvent
    \/ PutChunk
    \/ PutTail
    \/ PutSentinel

SpecReader == InitLong /\ [][NextReader]_vars

\* ---------------------------------------- the LinkIndex of stages 2 and 3

\* attrs.get(k) of a value the build did not store (Python None)
NoCoords == <<>>
NoBearing == -1

\* link_attrs as build_link_attributes_dict returns it for the network of
\* the stage-2 and stage-3 runs. L1 and L2 are LineStrings and carry the
\* derived values. L3 has a geometry that is neither a LineString nor a
\* MultiLineString: the build skips its derived values (network_cache.py
\* lines 246-248) and leaves its key in the dictionary. "Lx" is not a key.
link_attrs ==
    [l \in {"L1", "L2", "L3"} |->
        CASE l = "L1" ->
                [geom_type |-> "LineString", travel_start |-> <<0, 0>>,
                 travel_end |-> <<4, 2>>, bearing |-> 63, center |-> <<2, 1>>]
          [] l = "L2" ->
                [geom_type |-> "LineString", travel_start |-> <<4, 2>>,
                 travel_end |-> <<4, 6>>, bearing |-> 90, center |-> <<4, 4>>]
          [] l = "L3" ->
                [geom_type |-> "Polygon", travel_start |-> NoCoords,
                 travel_end |-> NoCoords, bearing |-> NoBearing,
                 center |-> NoCoords]]

\* -------------------------------------------------- parquet_to_animation

\* lines 91-107: datetime(2024, 1, 1) + timedelta(seconds), formatted as
\* year, month, day, hour, minute, second (seconds below 31 days)
time_to_timestamp(seconds) ==
    <<2024, 1, 1 + (seconds \div 86400), (seconds % 86400) \div 3600,
      (seconds % 3600) \div 60, seconds % 60>>

\* the feature built at lines 310-321 for second t of the row; a coordinate
\* start + (t / time_delta) * (end - start) is kept as the exact fraction
\* <<numerator, time_delta>>; row and k identify the Traversal and the second
feature_at(row, start_coords, end_coords, bearing, t) ==
    LET time_delta == row.time_leave - row.time_enter IN
    [x |-> <<start_coords[1] * time_delta
                + t * (end_coords[1] - start_coords[1]), time_delta>>,
     y |-> <<start_coords[2] * time_delta
                + t * (end_coords[2] - start_coords[2]), time_delta>>,
     timestamp |-> time_to_timestamp(row.time_enter + t),
     angle |-> bearing,
     person_id |-> row.person,
     interval_id |-> row.interval_id,
     row |-> row.row,
     k |-> t]

\* a plausible slip: a zero-length Traversal is rendered as one point
interpolate_trajectory_one_point(row, start_coords, end_coords, bearing) ==
    LET time_delta == row.time_leave - row.time_enter IN
    IF time_delta < 0 THEN <<>>
    ELSE IF time_delta = 0
    THEN << [feature_at(row, start_coords, end_coords, bearing, 0)
                EXCEPT !.x = <<start_coords[1], 1>>,
                       !.y = <<start_coords[2], 1>>] >>
    ELSE [i \in 1..(time_delta + 1) |->
            feature_at(row, start_coords, end_coords, bearing, i - 1)]

\* a plausible slip: the duration is taken as an absolute value
interpolate_trajectory_abs(row, start_coords, end_coords, bearing) ==
    LET time_delta == row.time_leave - row.time_enter
        span == IF time_delta < 0 THEN 0 - time_delta ELSE time_delta
    IN
    IF span = 0 THEN <<>>
    ELSE [i \in 1..(span + 1) |->
            feature_at(row, start_coords, end_coords, bearing, i - 1)]

\* a plausible slip: the points are produced from the last second backwards
interpolate_trajectory_reversed(row, start_coords, end_coords, bearing) ==
    LET time_delta == row.time_leave - row.time_enter IN
    IF time_delta <= 0 THEN <<>>
    ELSE [i \in 1..(time_delta + 1) |->
            feature_at(row, start_coords, end_coords, bearing,
                       time_delta + 1 - i)]

\* lines 299-324
interpolate_trajectory(row, start_coords, end_coords, bearing) ==
    LET time_delta == row.time_leave - row.time_enter IN
    IF time_delta <= 0 THEN <<>>
    ELSE [i \in 1..(time_delta + 1) |->
            feature_at(row, start_coords, end_coords, bearing, i - 1)]

\* lines 237-244: get_travel_endpoints raises ValueError for a geometry that
\* is neither a LineString nor a MultiLineString
endpoints_raise(attrs) ==
    attrs.geom_type \notin {"LineString", "MultiLineString"}

\* lines 356-395: one iteration of `for _, row in chunk_df.iterrows()`; the
\* features the row adds to all_features
process_row(row) ==
    IF row.link_id \notin DOMAIN link_attrs
    THEN <<>>
    ELSE LET attrs == link_attrs[row.link_id] IN
         IF attrs.travel_start = NoCoords \/ attrs.travel_end = NoCoords
         THEN \* the fallback of lines 372-374; its exception is caught at
              \* lines 393-395 and the row is skipped
              IF endpoints_raise(attrs) THEN <<>>
              ELSE interpolate_trajectory(row, attrs.travel_start,
                                          attrs.travel_end, attrs.bearing)
         ELSE interpolate_trajectory(row, attrs.travel_start,
                                     attrs.travel_end, attrs.bearing)

\* lines 351-399
process_parquet_chunk(chunk_df) ==
    Concat([i \in 1..Len(chunk_df) |-> process_row(chunk_df[i])])

\* the GeoJSON text is a sequence of tokens
OpenToken  == [tok |-> "open"]
SepToken   == [tok |-> "sep"]
CloseToken == [tok |-> "close"]
FeatureToken(f) == [tok |-> "feature", feature |-> f]

\* a plausible slip: `,\n` is written after every feature
RECURSIVE write_geojson_trailing(_, _, _)
write_geojson_trailing(text, first, features) ==
    IF features = <<>> THEN [text |-> text, first |-> first]
    ELSE write_geojson_trailing(
            text \o <<FeatureToken(Head(features)), SepToken>>,
            FALSE, Tail(features))

\* lines 485-489: `,\n` before every feature but the first, then the feature
RECURSIVE write_geojson(_, _, _)
write_geojson(text, first, features) ==
    IF features = <<>> THEN [text |-> text, first |-> first]
    ELSE write_geojson(
            (IF first THEN text ELSE Append(text, SepToken))
                \o <<FeatureToken(Head(features))>>,
            FALSE, Tail(features))

\* lines 492-508: the CSV row and the features_list entry of a feature
flat(f) ==
    [x |-> f.x, y |-> f.y, timestamp |-> f.timestamp, angle |-> f.angle,
     person_id |-> f.person_id, interval_id |-> f.interval_id,
     row |-> f.row, k |-> f.k]

HeaderRow == [tok |-> "header"]
CsvRow(f) == [tok |-> "row", r |-> flat(f)]

\* lines 480-508: the features written by the loop body to every open writer
write_features(w, fs, features) ==
    LET g == write_geojson(fs.geojson, w.geojson_first, features) IN
    [writers |->
        [w EXCEPT
            !.geojson_first =
                IF "geojson" \in output_formats THEN g.first ELSE @,
            !.features_list =
                IF "parquet" \in output_formats
                THEN @ \o [i \in 1..Len(features) |-> flat(features[i])]
                ELSE @],
     files |->
        [fs EXCEPT
            !.geojson = IF "geojson" \in output_formats THEN g.text ELSE @,
            !.csv = IF "csv" \in output_formats
                    THEN @ \o [i \in 1..Len(features) |-> CsvRow(features[i])]
                    ELSE @]]

\* rows of the intermediate table; row is the position in the file
ExportTimes == { <<59, 61>>, <<60, 60>>, <<61, 59>> }

ExportRows ==
    { [person |-> "A", link_id |-> l, time_enter |-> t[1],
       time_leave |-> t[2], interval_id |-> 0] :
        l \in {"L1", "L3", "Lx"}, t \in ExportTimes }

WithRow(r, i) ==
    [row |-> i, person |-> r.person, link_id |-> r.link_id,
     time_enter |-> r.time_enter, time_leave |-> r.time_leave,
     interval_id |-> r.interval_id]

TablesOver(rows, n) ==
    UNION { { [i \in 1..m |-> WithRow(t[i], i)] : t \in [1..m -> rows] } :
            m \in 0..n }

FormatSets == { {"geojson", "csv", "parquet"}, {"geojson"}, {"csv", "parquet"} }

InitExport ==
    /\ Stage1Idle
    /\ HeatmapIdle
    /\ NetworkIdle
    /\ DriverIdle
    /\ table \in TablesOver(ExportRows, MaxRows)
    /\ export_chunk_size \in 1..MaxChunk
    /\ output_formats \in FormatSets
    /\ epc = "open"
    /\ batch_pos = 1
    /\ eworkers = [w \in 1..NumWorkers |-> Idle]
    /\ eresults = <<>>
    /\ writers = NoWriters
    /\ files = NoFiles

\* lines 453-470: open the writers and write the headers
OpenWriters ==
    /\ epc = "open"
    /\ writers' =
        [NoWriters EXCEPT
            !.geojson = IF "geojson" \in output_formats THEN "open" ELSE @,
            !.csv = IF "csv" \in output_formats THEN "open" ELSE @]
    /\ files' =
        [files EXCEPT
            !.geojson = IF "geojson" \in output_formats
                        THEN <<OpenToken>> ELSE @,
            !.csv = IF "csv" \in output_formats THEN <<HeaderRow>> ELSE @,
            !.created = @ \cup (output_formats \cap {"geojson", "csv"})]
    /\ epc' = "loop"
    /\ UNCHANGED <<table, export_chunk_size, output_formats, batch_pos,
                   eworkers, eresults>>
    /\ UNCHANGED <<stage1_vars, heatmap_vars, network_vars, driver_vars>>

\* lines 475-478: batch_generator yields the next export_chunk_size rows and
\* a pool worker takes them
DispatchBatch(w) ==
    /\ epc = "loop"
    /\ batch_pos <= Len(table)
    /\ ~eworkers[w].busy
    /\ LET last == Min(batch_pos + export_chunk_size - 1, Len(table)) IN
        eworkers' = [eworkers EXCEPT ![w] = Busy(SubSeq(table, batch_pos, last))]
    /\ batch_pos' = batch_pos + export_chunk_size
    /\ UNCHANGED <<table, export_chunk_size, output_formats, epc, eresults,
                   writers, files>>
    /\ UNCHANGED <<stage1_vars, heatmap_vars, network_vars, driver_vars>>

\* the worker returns process_parquet_chunk((df, link_attrs))
FinishBatch(w) ==
    /\ epc = "loop"
    /\ eworkers[w].busy
    /\ eresults' = Append(eresults, process_parquet_chunk(eworkers[w].chunk))
    /\ eworkers' = [eworkers EXCEPT ![w] = Idle]
    /\ UNCHANGED <<table, export_chunk_size, output_formats, epc, batch_pos,
                   writers, files>>
    /\ UNCHANGED <<stage1_vars, heatmap_vars, network_vars, driver_vars>>

\* lines 480-511: the body of `for features in pool.imap_unordered(...)`
WriteFeatures ==
    /\ epc = "loop"
    /\ eresults # <<>>
    /\ LET out == write_features(writers, files, Head(eresults)) IN
        /\ writers' = out.writers
        /\ files' = out.files
    /\ eresults' = Tail(eresults)
    /\ UNCHANGED <<table, export_chunk_size, output_formats, epc, batch_pos,
                   eworkers>>
    /\ UNCHANGED <<stage1_vars, heatmap_vars, network_vars, driver_vars>>

\* a write of the loop body raises after n features of the batch have been
\* written; lines 546-555: the finally clause closes the open handles
WriteRaises ==
    /\ epc = "loop"
    /\ eresults # <<>>
    /\ \E n \in 0..(Len(Head(eresults)) - 1) :
        LET out == write_features(writers, files, SubSeq(Head(eresults), 1, n)) IN
        /\ writers' =
            [out.writers EXCEPT
                !.geojson = IF @ = "open" THEN "closed" ELSE @,
                !.csv = IF @ = "open" THEN "closed" ELSE @]
        /\ files' = out.files
    /\ eresults' = Tail(eresults)
    /\ epc' = "aborted"
    /\ UNCHANGED <<table, export_chunk_size, output_formats, batch_pos, eworkers>>
    /\ UNCHANGED <<stage1_vars, heatmap_vars, network_vars, driver_vars>>

\* imap_unordered is exhausted: every batch has been returned and written
ExportExhausted ==
    /\ batch_pos > Len(table)
    /\ \A w \in 1..NumWorkers : ~eworkers[w].busy
    /\ eresults = <<>>

\* lines 519-534: close the GeoJSON and CSV files, write the Parquet file
FinishExport ==
    /\ epc = "loop"
    /\ ExportExhausted
    /\ writers' =
        [writers EXCEPT
            !.geojson = IF @ = "open" THEN "closed" ELSE @,
            !.csv = IF @ = "open" THEN "closed" ELSE @]
    /\ files' =
        [files EXCEPT
            !.geojson = IF "geojson" \in output_formats
                        THEN Append(@, CloseToken) ELSE @,
            !.parquet = IF "parquet" \in output_formats
                        THEN writers.features_list ELSE @,
            !.created = @ \cup (output_formats \cap {"parquet"})]
    /\ epc' = "done"
    /\ UNCHANGED <<table, export_chunk_size, output_formats, batch_pos,
                   eworkers, eresults>>
    /\ UNCHANGED <<stage1_vars, heatmap_vars, network_vars, driver_vars>>

NextExport ==
    \/ OpenWriters
    \/ \E w \in 1..NumWorkers : DispatchBatch(w)
    \/ \E w \in 1..NumWorkers : FinishBatch(w)
    \/ WriteFeatures
    \/ WriteRaises
    \/ FinishExport

SpecExport == InitExport /\ [][NextExport]_vars

\* ---------------------------------------------------- parquet_to_heatmap

Max(a, b) == IF a >= b THEN a ELSE b

\* np.arange(start, stop, step) on integers with step >= 1
arange(start, stop, step) ==
    LET n == IF stop > start THEN (stop - start + step - 1) \div step ELSE 0
    IN [i \in 1..n |-> start + (i - 1) * step]

\* lines 197-200: the range, taken from the table where it was not given
start_of(d, range) ==
    IF range.start_time = NoTime
    THEN CHOOSE t \in { d[i].time_enter : i \in 1..Len(d) } :
            \A i \in 1..Len(d) : t <= d[i].time_enter
    ELSE range.start_time

end_of(d, range) ==
    IF range.end_time = NoTime
    THEN CHOOSE t \in { d[i].time_leave : i \in 1..Len(d) } :
            \A i \in 1..Len(d) : t >= d[i].time_leave
    ELSE range.end_time

\* a plausible slip: the end of the range is made inclusive by adding 1
heat_timepoints_inclusive(start_time, end_time, step) ==
    arange(start_time, end_time + 1, step)

\* line 205
heat_timepoints(start_time, end_time, step) ==
    arange(start_time, end_time + step, step)

\* a plausible slip: each slice runs one timepoint into the next
timepoint_batches_overlap(tps, num_workers) ==
    LET batch_size == Max(1, Len(tps) \div (num_workers * 2))
        n == (Len(tps) + batch_size - 1) \div batch_size
    IN [j \in 1..n |->
            SubSeq(tps, (j - 1) * batch_size + 1, Min(j * batch_size + 1, Len(tps)))]

\* lines 210-211
timepoint_batches(tps, num_workers) ==
    LET batch_size == Max(1, Len(tps) \div (num_workers * 2))
        n == (Len(tps) + batch_size - 1) \div batch_size
    IN [j \in 1..n |->
            SubSeq(tps, (j - 1) * batch_size + 1, Min(j * batch_size, Len(tps)))]

\* a plausible slip: a vehicle still counts at the second it leaves
active_vehicles_inclusive(d, timepoint) ==
    SelectSeq(d, LAMBDA r : r.time_enter <= timepoint /\ r.time_leave >= timepoint)

\* lines 117-118
active_vehicles(d, timepoint) ==
    SelectSeq(d, LAMBDA r : r.time_enter <= timepoint /\ r.time_leave > timepoint)

\* groupby('link_id') yields the link ids in sorted order
LinkOrder == <<"L1", "L2", "L3", "Lx">>

\* a plausible slip: a link without a center is drawn at the origin
cell_center_origin(link_id) ==
    IF link_id \notin DOMAIN link_attrs THEN <<0, 0>>
    ELSE link_attrs[link_id].center

\* lines 132-138: the center of the link, NoCoords where the loop continues
cell_center(link_id) ==
    IF link_id \notin DOMAIN link_attrs THEN NoCoords
    ELSE link_attrs[link_id].center

\* lines 114-151: the records of one timepoint
cells_at(d, timepoint) ==
    LET active == active_vehicles(d, timepoint)
        count(l) == Len(SelectSeq(active, LAMBDA r : r.link_id = l))
        groups == SelectSeq(LinkOrder, LAMBDA l : count(l) > 0)
        kept == SelectSeq(groups, LAMBDA l : cell_center(l) # NoCoords)
    IN [i \in 1..Len(kept) |->
            [link_id |-> kept[i],
             x |-> cell_center(kept[i])[1],
             y |-> cell_center(kept[i])[2],
             timestamp |-> time_to_timestamp(timepoint),
             timepoint_seconds |-> timepoint,
             vehicle_count |-> count(kept[i])]]

\* lines 113-153
process_timepoint_batch(tps, d) ==
    Concat([i \in 1..Len(tps) |-> cells_at(d, tps[i])])

HeatTimes == { <<1, 3>>, <<2, 4>> }

HeatRows ==
    { [person |-> "A", link_id |-> l, time_enter |-> t[1],
       time_leave |-> t[2], interval_id |-> 0] :
        l \in {"L1", "L2", "L3", "Lx"}, t \in HeatTimes }

RangeTimes == {1, 2, 4}

HeatRanges ==
    {NoRange} \cup
    { [start_time |-> p[1], end_time |-> p[2]] :
        p \in { q \in RangeTimes \X RangeTimes : q[1] <= q[2] } }

InitHeatmap ==
    /\ Stage1Idle
    /\ ExportIdle
    /\ NetworkIdle
    /\ DriverIdle
    /\ df \in TablesOver(HeatRows, MaxHeatRows)
    /\ interval_seconds \in 1..MaxStep
    /\ time_range \in HeatRanges
    /\ heat_workers \in 1..NumWorkers
    /\ hpc = "sample"
    /\ timepoints = <<>>
    /\ batches = <<>>
    /\ outstanding = {}
    /\ all_records = <<>>

\* the table is empty and the range is to be taken from it
RangeUndefined ==
    /\ df = <<>>
    /\ time_range.start_time = NoTime \/ time_range.end_time = NoTime

\* lines 197-200: int() of the minimum of an empty column raises
SampleFails ==
    /\ hpc = "sample"
    /\ RangeUndefined
    /\ hpc' = "failed"
    /\ UNCHANGED <<df, interval_seconds, time_range, heat_workers, timepoints,
                   batches, outstanding, all_records>>
    /\ UNCHANGED <<stage1_vars, export_vars, network_vars, driver_vars>>

\* lines 197-211: the timepoints and their batches
Sample ==
    /\ hpc = "sample"
    /\ ~RangeUndefined
    /\ LET tps == heat_timepoints(start_of(df, time_range),
                                  end_of(df, time_range), interval_seconds)
           bs == timepoint_batches(tps, heat_workers)
       IN /\ timepoints' = tps
          /\ batches' = bs
          /\ outstanding' = 1..Len(bs)
    /\ hpc' = "collect"
    /\ UNCHANGED <<df, interval_seconds, time_range, heat_workers, all_records>>
    /\ UNCHANGED <<stage1_vars, export_vars, network_vars, driver_vars>>

\* lines 222-223: a batch comes back from imap_unordered, in any order, and
\* its records are appended
CollectBatch(j) ==
    /\ hpc = "collect"
    /\ j \in outstanding
    /\ all_records' = all_records \o process_timepoint_batch(batches[j], df)
    /\ outstanding' = outstanding \ {j}
    /\ UNCHANGED <<df, interval_seconds, time_range, heat_workers, hpc,
                   timepoints, batches>>
    /\ UNCHANGED <<stage1_vars, export_vars, network_vars, driver_vars>>

\* lines 227-300: every batch is in; the records are exported
FinishHeatmap ==
    /\ hpc = "collect"
    /\ outstanding = {}
    /\ hpc' = "done"
    /\ UNCHANGED <<df, interval_seconds, time_range, heat_workers, timepoints,
                   batches, outstanding, all_records>>
    /\ UNCHANGED <<stage1_vars, export_vars, network_vars, driver_vars>>

NextHeatmap ==
    \/ SampleFails
    \/ Sample
    \/ \E j \in 1..Len(batches) : CollectBatch(j)
    \/ FinishHeatmap

SpecHeatmap == InitHeatmap /\ [][NextHeatmap]_vars

\* ------------------------------- stage 3 on the heatmap-counting scenario

\* the three Traversals of the scenario
ScenarioRows ==
    << [person |-> "A", link_id |-> "L1", time_enter |-> 100,
        time_leave |-> 200, interval_id |-> 0],
       [person |-> "B", link_id |-> "L1", time_enter |-> 150,
        time_leave |-> 180, interval_id |-> 0],
       [person |-> "C", link_id |-> "L2", time_enter |-> 160,
        time_leave |-> 170, interval_id |-> 0] >>

\* the table holds them in any file order
ScenarioTables ==
    { [i \in 1..3 |-> WithRow(ScenarioRows[p[i]], i)] :
        p \in { q \in [1..3 -> 1..3] : \A i, j \in 1..3 : q[i] = q[j] => i = j } }

InitScenario ==
    /\ Stage1Idle
    /\ ExportIdle
    /\ NetworkIdle
    /\ DriverIdle
    /\ df \in ScenarioTables
    /\ interval_seconds = 35
    /\ time_range = [start_time |-> 100, end_time |-> 200]
    /\ heat_workers \in 1..NumWorkers
    /\ hpc = "sample"
    /\ timepoints = <<>>
    /\ batches = <<>>
    /\ outstanding = {}
    /\ all_records = <<>>

NextScenario ==
    \/ Sample
    \/ \E j \in 1..Len(batches) : CollectBatch(j)
    \/ FinishHeatmap

SpecScenario == InitScenario /\ [][NextScenario]_vars

\* ------------------------------------- one of the two output stages runs

InitOutput == InitExport \/ InitHeatmap

NextOutput ==
    \/ NextExport
    \/ NextHeatmap

SpecOutput == InitOutput /\ [][NextOutput]_vars

\* ------------------------------- utils/network_cache.py: the LinkIndex build

\* coordinate tuples of the network, in hundredths of a degree
PointA == <<0, 0>>
PointB == <<200, -1>>
PointC == <<100, 100>>

\* shapely geometries: geom_type and the coordinate sequence of each part
LineString(coords)     == [geom_type |-> "LineString", geoms |-> <<coords>>]
MultiLineString(parts) == [geom_type |-> "MultiLineString", geoms |-> parts]
Polygon                == [geom_type |-> "Polygon", geoms |-> <<>>]
\* attrs.get('geometry') of a row without geometry (Python None)
NoGeometry             == [geom_type |-> "None", geoms |-> <<>>]

Geometries ==
    { LineString(<<PointA, PointB>>), LineString(<<PointB, PointC>>),
      LineString(<<PointA, PointA>>),
      MultiLineString(<< <<PointA, PointB>>, <<PointB, PointC>> >>),
      Polygon, NoGeometry }

\* the from and to node numbers of a row
NodePairs == (1..2) \X (1..2)

\* row i of a network table: the link ids are unique
network_row(i, nodes, geom) ==
    [linkId |-> "L" \o ToString(i), from |-> nodes[1], to |-> nodes[2],
     geometry |-> geom]

\* lines 196-203: the node columns cast to str
astype_str(n) == ToString(n)

\* lines 216-226: the positions of the links that start (end) at a node, in
\* the iteration order of link_attrs
from_node_links(net, node) ==
    SelectSeq([i \in 1..Len(net) |-> i], LAMBDA j : astype_str(net[j].from) = node)
to_node_links(net, node) ==
    SelectSeq([i \in 1..Len(net) |-> i], LAMBDA j : astype_str(net[j].to) = node)

\* no neighbour found (Python None)
NoLinkFound == 0

\* a previous link that may be a U-turn of the link itself
previous_link_uturn(net, i) ==
    LET found == SelectSeq(to_node_links(net, astype_str(net[i].from)),
                           LAMBDA j : j # i)
    IN  IF found = <<>> THEN NoLinkFound ELSE found[1]

\* lines 255-260: the first other link that ends at from_node and does not
\* start at to_node
previous_link(net, i) ==
    LET found == SelectSeq(to_node_links(net, astype_str(net[i].from)),
                           LAMBDA j : /\ j # i
                                      /\ astype_str(net[j].from) # astype_str(net[i].to))
    IN  IF found = <<>> THEN NoLinkFound ELSE found[1]

\* lines 264-269: the first other link that starts at to_node and does not
\* end at from_node
next_link(net, i) ==
    LET found == SelectSeq(from_node_links(net, astype_str(net[i].to)),
                           LAMBDA j : /\ j # i
                                      /\ astype_str(net[j].to) # astype_str(net[i].from))
    IN  IF found = <<>> THEN NoLinkFound ELSE found[1]

\* lines 231-251: the link is skipped (continue) and keeps its base attributes
build_skips(geom) == geom.geom_type \notin {"LineString", "MultiLineString"}

\* lines 240-245: ec1 and ec2 of a LineString or MultiLineString
edge_start(geom) == geom.geoms[1][1]
edge_end(geom) ==
    LET last == geom.geoms[Len(geom.geoms)] IN last[Len(last)]

\* lines 274-275, 283-284: a neighbour geometry that is truthy and has no
\* .coords (shapely raises NotImplementedError for multi-part geometries
\* and polygons); the exception is not caught
coords_raise(geom) == geom.geom_type \in {"MultiLineString", "Polygon"}

\* lines 272-288: (ef1, ef2) or (et1, et2): the endpoints of the neighbour,
\* or the link's own endpoint twice
neighbour_coords(net, j, own) ==
    IF j # NoLinkFound /\ net[j].geometry # NoGeometry
    THEN <<net[j].geometry.geoms[1][1],
           net[j].geometry.geoms[1][Len(net[j].geometry.geoms[1])]>>
    ELSE <<own, own>>

\* a travel start taken from the neighbour whatever it matches
travel_start_of_neighbour(ec1, ef) == ef[1]

\* line 291
travel_start_of(ec1, ef) ==
    IF ec1 = ef[1] THEN ef[1] ELSE IF ec1 = ef[2] THEN ef[2] ELSE ec1
\* line 292
travel_end_of(ec2, et) ==
    IF ec2 = et[1] THEN et[1] ELSE IF ec2 = et[2] THEN et[2] ELSE ec2

\* lines 295-299: math.degrees(math.atan2(x, y)) of the great-circle
\* formula, in thousandths of a degree (floor), for the points of the model
atan2_degrees(s, e) ==
    CASE s = e                       -> 0
      [] s = PointA /\ e = PointB    -> -287
      [] s = PointA /\ e = PointC    -> 44995
      [] s = PointB /\ e = PointA    -> 179713
      [] s = PointB /\ e = PointC    -> 134710
      [] s = PointC /\ e = PointA    -> -134996
      [] s = PointC /\ e = PointB    -> -45264

\* Python round() of a value given in thousandths: to nearest, ties to even
round(m) ==
    LET q == m \div 1000
        r == m % 1000
    IN  IF r < 500 THEN q
        ELSE IF r > 500 THEN q + 1
        ELSE IF q % 2 = 0 THEN q ELSE q + 1

\* line 300 (and calculate_bearing, parquet_to_animation.py lines 127-139):
\* round((degrees + 360) % 360)
bearing_of(s, e) == round((atan2_degrees(s, e) + 360000) % 360000)

\* lines 303-308: the point half way along the geometry; only the geometry
\* it is taken from is kept
center_of(geom) == [half_way_along |-> geom.geoms]

\* lines 207, 311-314: the attributes of link i after the build; derived
\* says that travel_start, travel_end, bearing and center are set;
\* previous_link and next_link are the locals of lines 254-269
built_attrs(net, i) ==
    LET row == net[i]
        base == [linkId |-> row.linkId, from |-> astype_str(row.from),
                 to |-> astype_str(row.to), geometry |-> row.geometry]
    IN  IF build_skips(row.geometry)
        THEN base @@ [derived |-> FALSE, travel_start |-> NoCoords,
                      travel_end |-> NoCoords, bearing |-> NoBearing,
                      center |-> NoCoords, previous_link |-> NoLinkFound,
                      next_link |-> NoLinkFound]
        ELSE LET ec1 == edge_start(row.geometry)
                 ec2 == edge_end(row.geometry)
                 prev == previous_link(net, i)
                 next == next_link(net, i)
                 ts == travel_start_of(ec1, neighbour_coords(net, prev, ec1))
                 te == travel_end_of(ec2, neighbour_coords(net, next, ec2))
             IN  base @@ [derived |-> TRUE, travel_start |-> ts,
                          travel_end |-> te, bearing |-> bearing_of(ts, te),
                          center |-> center_of(row.geometry),
                          previous_link |-> prev, next_link |-> next]

\* the build raises at link i: a neighbour's .coords is read and raises
build_raises_at(net, i) ==
    /\ ~build_skips(net[i].geometry)
    /\ \/ /\ previous_link(net, i) # NoLinkFound
          /\ coords_raise(net[previous_link(net, i)].geometry)
       \/ /\ next_link(net, i) # NoLinkFound
          /\ coords_raise(net[next_link(net, i)].geometry)

\* lines 173-320 with precompute_endpoints=True: the dict in iteration order,
\* or the exception that leaves the loop
build_link_attributes_dict(net) ==
    IF \E i \in 1..Len(net) : build_raises_at(net, i)
    THEN [status |-> "raised", link_attrs |-> <<>>]
    ELSE [status |-> "built",
          link_attrs |-> [i \in 1..Len(net) |-> built_attrs(net, i)]]

\* main_pipeline.py line 374: set(link_attrs.keys())
keys_of(attrs) == { attrs[i].linkId : i \in 1..Len(attrs) }

InitBuild ==
    /\ Stage1Idle
    /\ ExportIdle
    /\ HeatmapIdle
    /\ DriverIdle
    /\ \E n \in 0..MaxLinks : \E f \in [1..n -> NodePairs \X Geometries] :
           network_df = [i \in 1..n |-> network_row(i, f[i][1], f[i][2])]
    /\ built = NotBuilt
    /\ disk = <<>>
    /\ clock = 0
    /\ loaded = NotLoaded

\* main_pipeline.py line 373
BuildIndex ==
    /\ built.status = "none"
    /\ built' = build_link_attributes_dict(network_df)
    /\ UNCHANGED <<network_df, disk, clock, loaded, stages_vars, driver_vars>>

NextBuild == BuildIndex

SpecBuild == InitBuild /\ [][NextBuild]_vars

\* ----------------------------- utils/network_cache.py: the network cache

\* a path: its directories, and the stem and suffix of its file name
GpkgPath(dirs) == [dirs |-> dirs, stem |-> "network", suffix |-> ".gpkg"]

\* the network sources a run may be configured with
GpkgPaths == { GpkgPath(<<"raw", "v3">>), GpkgPath(<<"raw", "v4">>) }

\* what a source file may hold (the table gpd.read_file returns)
Contents == {"links_a", "links_b"}

\* lines 26-31: gpkg_path.parent.parent / "interim" / (stem + "_cache.parquet")
get_cache_path(gpkg_path) ==
    [dirs   |-> SubSeq(gpkg_path.dirs, 1, Len(gpkg_path.dirs) - 1) \o <<"interim">>,
     stem   |-> gpkg_path.stem \o "_cache",
     suffix |-> ".parquet"]

\* a validity test that takes an equal mtime for stale
is_cache_valid_strict(d, gpkg_path, cache_path) ==
    IF cache_path \notin DOMAIN d THEN "invalid"
    ELSE IF gpkg_path \notin DOMAIN d THEN "raises"
    ELSE IF d[cache_path].mtime > d[gpkg_path].mtime THEN "valid" ELSE "invalid"

\* a validity test that does not look at the source when it is absent
is_cache_valid_no_stat(d, gpkg_path, cache_path) ==
    IF cache_path \notin DOMAIN d THEN "invalid"
    ELSE IF gpkg_path \notin DOMAIN d THEN "valid"
    ELSE IF d[cache_path].mtime >= d[gpkg_path].mtime THEN "valid" ELSE "invalid"

\* lines 45-55: False without a cache file; gpkg_path.stat() raises
\* FileNotFoundError without a source file; else cache_mtime >= gpkg_mtime
is_cache_valid(d, gpkg_path, cache_path) ==
    IF cache_path \notin DOMAIN d THEN "invalid"
    ELSE IF gpkg_path \notin DOMAIN d THEN "raises"
    ELSE IF d[cache_path].mtime >= d[gpkg_path].mtime THEN "valid" ELSE "invalid"

\* line 94: the geometry column serialised to WKB
to_wkb(content) == [geometry_wkb |-> content]
\* line 129: wkb.loads of the geometry_wkb column
wkb_loads(content) == content.geometry_wkb

\* no table returned
NoTable == "<none>"

\* lines 82-101: the disk after create_network_cache; gpd.read_file raises
\* without a source file and nothing is written; source names the file the
\* cache was built from (history, not part of the cache file)
create_network_cache(d, now, gpkg_path, cache_path) ==
    IF gpkg_path \notin DOMAIN d THEN d
    ELSE (cache_path :> [mtime |-> now, content |-> to_wkb(d[gpkg_path].content),
                         source |-> gpkg_path]) @@ d

\* lines 155-170: the disk and the result of load_network_cached; before is
\* the disk at the time of the call
load_network_cached(d, now, gpkg_path, force_refresh) ==
    LET cache_path == get_cache_path(gpkg_path)
        valid == IF force_refresh THEN "invalid"
                 ELSE is_cache_valid(d, gpkg_path, cache_path)
        call == [gpkg_path |-> gpkg_path, force_refresh |-> force_refresh,
                 before |-> d]
    IN  IF valid = "raises" \/ (valid = "invalid" /\ gpkg_path \notin DOMAIN d)
        THEN [disk |-> d,
              result |-> call @@ [status |-> "raised", rewrote |-> FALSE,
                                  table |-> NoTable]]
        ELSE LET after == IF valid = "invalid"
                          THEN create_network_cache(d, now, gpkg_path, cache_path)
                          ELSE d
             IN  [disk |-> after,
                  result |-> call @@ [status |-> "returned",
                                      rewrote |-> (valid = "invalid"),
                                      table |-> wkb_loads(after[cache_path].content)]]

InitCache ==
    /\ Stage1Idle
    /\ ExportIdle
    /\ HeatmapIdle
    /\ DriverIdle
    /\ network_df = <<>>
    /\ built = NotBuilt
    /\ disk = <<>>
    /\ clock = 0
    /\ loaded = NotLoaded

\* the source file is written: a new file, an edit, or a copy that keeps an
\* older modification time
WriteSource(p, c, m) ==
    /\ disk' = (p :> [mtime |-> m, content |-> c]) @@ disk
    /\ UNCHANGED <<network_df, built, clock, loaded, stages_vars, driver_vars>>

\* the source file is removed
RemoveSource(p) ==
    /\ p \in DOMAIN disk
    /\ disk' = [q \in DOMAIN disk \ {p} |-> disk[q]]
    /\ UNCHANGED <<network_df, built, clock, loaded, stages_vars, driver_vars>>

\* time passes
Tick ==
    /\ clock < MaxClock
    /\ clock' = clock + 1
    /\ UNCHANGED <<network_df, built, disk, loaded, stages_vars, driver_vars>>

\* lines 139-170: one call of load_network_cached
LoadCached(p, force_refresh) ==
    LET r == load_network_cached(disk, clock, p, force_refresh)
    IN  /\ disk' = r.disk
        /\ loaded' = r.result
        /\ UNCHANGED <<network_df, built, clock, stages_vars, driver_vars>>

NextCache ==
    \/ \E p \in GpkgPaths, c \in Contents, m \in 0..clock : WriteSource(p, c, m)
    \/ \E p \in GpkgPaths : RemoveSource(p)
    \/ Tick
    \/ \E p \in GpkgPaths, f \in BOOLEAN : LoadCached(p, f)

SpecCache == InitCache /\ [][NextCache]_vars

\* --------------------------------------------- main_pipeline.py: main()

\* the network table a source file holds: a link and a polygon link back, or
\* a link followed by a MultiLineString link
network_of(content) ==
    IF content = "links_a"
    THEN << network_row(1, <<1, 2>>, LineString(<<PointB, PointC>>)),
            network_row(2, <<2, 1>>, Polygon) >>
    ELSE << network_row(1, <<1, 2>>, LineString(<<PointB, PointC>>)),
            network_row(2, <<2, 2>>,
                        MultiLineString(<< <<PointA, PointB>>, <<PointB, PointC>> >>)) >>

\* main has not returned
NoExit == -1

\* the stage is enabled by the configuration (lines 384, 427, 462)
stage_enabled(config, k) ==
    CASE k = 1 -> ~config.skip_xml_to_parquet
      [] k = 2 -> ~config.skip_parquet_to_export
      [] k = 3 -> config.heatmap_enabled

\* the position of main at the test that guards stage k
StagePc(k) == CASE k = 1 -> "stage1" [] k = 2 -> "stage2" [] k = 3 -> "stage3"
\* the position of main inside the call of stage k
RunPc(k)   == CASE k = 1 -> "run1" [] k = 2 -> "run2" [] k = 3 -> "run3"
\* where main goes after stage k (line 495 after the last)
AfterPc(k) == CASE k = 1 -> "stage2" [] k = 2 -> "stage3" [] k = 3 -> "finish"

\* a main that starts stage 1 before the network is loaded
after_config_stage_first(config) ==
    IF config.skip_xml_to_parquet THEN "network" ELSE "stage1"

\* lines 356-373: after the configuration is loaded the network is loaded
after_config(config) == "network"

\* a handler that reports a failed stage 3 as success
exit_on_raise_heatmap_ok(what) == IF what = "stage3" THEN 0 ELSE 1

\* lines 361, 381, 410, 445, 488: the except clauses return 1
exit_on_raise(what) == 1

\* main returns code from position pc because of what raised
main_returns(code, what) ==
    [main EXCEPT !.pc = "returned", !.exit_code = code, !.raised = what]

InitMain ==
    /\ Stage1Idle
    /\ ExportIdle
    /\ HeatmapIdle
    /\ snap = [pc |-> "idle"]
    /\ network_df = <<>>
    /\ built = NotBuilt
    /\ loaded = NotLoaded
    /\ clock = 0
    /\ \E c \in Contents, cached \in BOOLEAN :
           LET gpkg == GpkgPath(<<"raw", "v3">>)
               source == gpkg :> [mtime |-> 0, content |-> c]
           IN  disk = IF cached THEN create_network_cache(source, 0, gpkg, get_cache_path(gpkg))
                                ELSE source
    /\ \E skip1, skip2, heat, valid, pq, ex \in BOOLEAN :
           main = [pc |-> "config",
                   config |-> [skip_xml_to_parquet |-> skip1,
                               skip_parquet_to_export |-> skip2,
                               heatmap_enabled |-> heat,
                               gpkg_network |-> GpkgPath(<<"raw", "v3">>)],
                   config_valid |-> valid,
                   parquet_exists |-> pq,
                   export_exists |-> ex,
                   link_attrs |-> <<>>,
                   valid_links |-> {},
                   started |-> <<>>,
                   completed |-> {},
                   raised |-> "none",
                   exit_code |-> NoExit]

\* lines 356-361: load_config returns or raises
LoadConfig ==
    /\ main.pc = "config"
    /\ main' = IF main.config_valid
               THEN [main EXCEPT !.pc = after_config(main.config)]
               ELSE main_returns(exit_on_raise("config"), "config")
    /\ UNCHANGED <<network_vars, snap, stages_vars>>

\* lines 371-381: load_network_cached, build_link_attributes_dict and
\* valid_links, or the except clause
LoadNetwork ==
    /\ main.pc = "network"
    /\ LET r == load_network_cached(disk, clock, main.config.gpkg_network, FALSE)
           rows == IF r.result.status = "returned"
                    THEN network_of(r.result.table) ELSE <<>>
           b == IF r.result.status = "returned"
                THEN build_link_attributes_dict(rows) ELSE NotBuilt
       IN  /\ disk' = r.disk
           /\ loaded' = r.result
           /\ network_df' = rows
           /\ built' = b
           /\ main' = IF b.status = "built"
                      THEN [main EXCEPT !.pc = "stage1",
                                        !.link_attrs = b.link_attrs,
                                        !.valid_links = keys_of(b.link_attrs)]
                      ELSE main_returns(exit_on_raise("network"), "network")
    /\ UNCHANGED <<clock, snap, stages_vars>>

\* lines 384-406, 427-441, 462-484: main calls stage k, which starts its
\* worker processes with the link_attrs (valid_links) main holds
EnterStage(k) ==
    /\ main.pc = StagePc(k)
    /\ stage_enabled(main.config, k)
    /\ main' = [main EXCEPT !.pc = RunPc(k), !.started = Append(@, k)]
    /\ UNCHANGED <<network_vars, snap, stages_vars>>

\* lines 417-424, 452-459, 492-493: the stage is skipped; a skipped stage 1 or 2
\* whose output does not exist makes main return 1
SkipStage(k) ==
    /\ main.pc = StagePc(k)
    /\ ~stage_enabled(main.config, k)
    /\ main' = IF \/ k = 1 /\ ~main.parquet_exists
                  \/ k = 2 /\ ~main.export_exists
               THEN main_returns(1, "none")
               ELSE [main EXCEPT !.pc = AfterPc(k)]
    /\ UNCHANGED <<network_vars, snap, stages_vars>>

\* lines 412-415, 447-450, 490-491: the call of stage k returned; stage 1
\* creates the intermediate file only when it has a row to write, stages 2
\* and 3 read it
StageReturns(k) ==
    /\ main.pc = RunPc(k)
    /\ k \in {2, 3} => main.parquet_exists
    /\ \E wrote \in BOOLEAN :
           main' = [main EXCEPT !.pc = AfterPc(k),
                                !.completed = @ \cup {k},
                                !.parquet_exists = IF k = 1 THEN @ \/ wrote ELSE @,
                                !.export_exists = IF k = 2 THEN @ \/ wrote ELSE @]
    /\ UNCHANGED <<network_vars, snap, stages_vars>>

\* lines 407-410, 442-445, 485-488: the call of stage k raised
StageRaises(k) ==
    /\ main.pc = RunPc(k)
    /\ main' = main_returns(exit_on_raise(StagePc(k)), StagePc(k))
    /\ UNCHANGED <<network_vars, snap, stages_vars>>

\* lines 495-502
ReturnSuccess ==
    /\ main.pc = "finish"
    /\ main' = main_returns(0, "none")
    /\ UNCHANGED <<network_vars, snap, stages_vars>>

NextMain ==
    \/ LoadConfig
    \/ LoadNetwork
    \/ \E k \in 1..3 : EnterStage(k)
    \/ \E k \in 1..3 : SkipStage(k)
    \/ \E k \in 1..3 : StageReturns(k)
    \/ \E k \in 1..3 : StageRaises(k)
    \/ ReturnSuccess

SpecMain == InitMain /\ [][NextMain]_vars

\* --------------------- main_pipeline.py: generate_snapshot_intervals

\* an "hh:mm" string, character by character
TimeString(h, m) == <<"0", ToString(h), ":", "0", ToString(m)>>

\* the start_time and end_time values of the configuration
SnapshotTimes == { TimeString(0, m) : m \in 0..MaxMinute } \cup { TimeString(1, 0) }

\* the frequency_seconds and duration_seconds values (both >= 1, lines 123-124)
Frequencies == {20, 45, 60}
Durations   == {1, 60, 90}

\* the value of a decimal digit
DigitOf(c) ==
    CASE c = "0" -> 0 [] c = "1" -> 1 [] c = "2" -> 2 [] c = "3" -> 3 [] c = "4" -> 4
      [] c = "5" -> 5 [] c = "6" -> 6 [] c = "7" -> 7 [] c = "8" -> 8 [] c = "9" -> 9

\* int() of a string of digits
RECURSIVE parse_int(_)
parse_int(s) ==
    IF s = <<>> THEN 0
    ELSE 10 * parse_int(SubSeq(s, 1, Len(s) - 1)) + DigitOf(s[Len(s)])

\* lines 238-242: h, m = map(int, time.split(':')); h * 3600 + m * 60
to_seconds(time) ==
    LET colon == CHOOSE k \in 1..Len(time) : time[k] = ":"
        h == parse_int(SubSeq(time, 1, colon - 1))
        m == parse_int(SubSeq(time, colon + 1, Len(time)))
    IN  h * 3600 + m * 60

\* a loop test that leaves out the window that ends at end_seconds
loop_continues_strict(current, duration_seconds, end_seconds) ==
    current + duration_seconds < end_seconds

\* line 247: the while condition
loop_continues(current, duration_seconds, end_seconds) ==
    current + duration_seconds <= end_seconds

InitSnapshots ==
    /\ Stage1Idle
    /\ ExportIdle
    /\ HeatmapIdle
    /\ NetworkIdle
    /\ main = [pc |-> "idle"]
    /\ \E s, e \in SnapshotTimes, f \in Frequencies, d \in Durations :
           snap = [pc |-> "call", start_time |-> s, end_time |-> e,
                   frequency_seconds |-> f, duration_seconds |-> d,
                   start_seconds |-> 0, end_seconds |-> 0, current |-> 0,
                   intervals |-> <<>>]

\* lines 238-245: the times converted, intervals = [], current = start_seconds
SnapshotsEnter ==
    /\ snap.pc = "call"
    /\ snap' = [snap EXCEPT !.pc = "loop",
                            !.start_seconds = to_seconds(snap.start_time),
                            !.end_seconds = to_seconds(snap.end_time),
                            !.current = to_seconds(snap.start_time),
                            !.intervals = <<>>]
    /\ UNCHANGED <<network_vars, main, stages_vars>>

\* lines 247-249: one iteration of the loop
SnapshotsAppend ==
    /\ snap.pc = "loop"
    /\ loop_continues(snap.current, snap.duration_seconds, snap.end_seconds)
    /\ snap' = [snap EXCEPT !.intervals =
                                Append(@, <<snap.current,
                                            snap.current + snap.duration_seconds>>),
                            !.current = @ + snap.frequency_seconds]
    /\ UNCHANGED <<network_vars, main, stages_vars>>

\* lines 247, 251-253: the loop is left and the list returned
SnapshotsReturn ==
    /\ snap.pc = "loop"
    /\ ~loop_continues(snap.current, snap.duration_seconds, snap.end_seconds)
    /\ snap' = [snap EXCEPT !.pc = "returned"]
    /\ UNCHANGED <<network_vars, main, stages_vars>>

NextSnapshots ==
    \/ SnapshotsEnter
    \/ SnapshotsAppend
    \/ SnapshotsReturn

\* the function runs on: a step that can be taken is taken
SpecSnapshots == InitSnapshots /\ [][NextSnapshots]_vars /\ WF_vars(NextSnapshots)

\* ------------- parquet_to_animation.py: endpoints and bearing on demand

\* network_cache.py lines 206-207: the attributes of link i when the block
\* of lines 209-316 is not run (precompute_endpoints=False)
base_attrs(net, i) ==
    [linkId |-> net[i].linkId, from |-> astype_str(net[i].from),
     to |-> astype_str(net[i].to), geometry |-> net[i].geometry,
     derived |-> FALSE, travel_start |-> NoCoords, travel_end |-> NoCoords,
     bearing |-> NoBearing, center |-> NoCoords,
     previous_link |-> NoLinkFound, next_link |-> NoLinkFound]

\* network_cache.py lines 173-320 for either value of precompute_endpoints
build_link_attributes(net, precompute_endpoints) ==
    IF precompute_endpoints THEN build_link_attributes_dict(net)
    ELSE [status |-> "built",
          link_attrs |-> [i \in 1..Len(net) |-> base_attrs(net, i)]]

\* lines 142-173: one pass over link_attrs; the elif makes a link that
\* passes the first test never a next link
get_neighboring_links(from_node, to_node, attrs) ==
    LET is_previous(j) == attrs[j].to = from_node /\ attrs[j].from # to_node
        is_next(j) ==
            /\ ~is_previous(j)
            /\ attrs[j].from = to_node /\ attrs[j].to # from_node
        order == [j \in 1..Len(attrs) |-> j]
        previous == SelectSeq(order, is_previous)
        next == SelectSeq(order, is_next)
    IN  [previous  |-> IF previous = <<>> THEN NoLinkFound ELSE previous[1],
         next_link |-> IF next = <<>> THEN NoLinkFound ELSE next[1]]

\* lines 176-204: both ends of the neighbour's geometry, or the fallback
\* twice
get_edge_coords(j, attrs, fallback) ==
    IF j = NoLinkFound THEN <<fallback, fallback>>
    ELSE IF attrs[j].geometry.geom_type \in {"LineString", "MultiLineString"}
    THEN <<edge_start(attrs[j].geometry), edge_end(attrs[j].geometry)>>
    ELSE <<fallback, fallback>>

\* lines 207-267: raised for a geometry that is neither a LineString nor a
\* MultiLineString; else travel_start and travel_end as the two if-chains
\* of lines 253-265 leave them (NoCoords: still None)
get_travel_endpoints(i, attrs) ==
    IF attrs[i].geometry.geom_type \notin {"LineString", "MultiLineString"}
    THEN [raised |-> TRUE, travel_start |-> NoCoords, travel_end |-> NoCoords]
    ELSE
      LET nb  == get_neighboring_links(attrs[i].from, attrs[i].to, attrs)
          ec1 == edge_start(attrs[i].geometry)
          ec2 == edge_end(attrs[i].geometry)
          ef  == get_edge_coords(nb.previous, attrs, ec1)
          et  == get_edge_coords(nb.next_link, attrs, ec2)
          \* lines 253-258
          start1 == IF ec1 \in {ef[1], ef[2]}
                    THEN (IF ec1 = ef[1] THEN ef[1] ELSE ef[2])
                    ELSE IF ec1 \in {et[1], et[2]} THEN NoCoords
                    ELSE ec1
          end1   == IF ec1 \in {ef[1], ef[2]} THEN NoCoords
                    ELSE IF ec1 \in {et[1], et[2]}
                    THEN (IF ec1 = et[1] THEN et[1] ELSE et[2])
                    ELSE NoCoords
          \* lines 260-265
          start2 == IF ec2 \in {ef[1], ef[2]}
                    THEN (IF ec2 = ef[1] THEN ef[1] ELSE ef[2])
                    ELSE start1
          end2   == IF ec2 \in {ef[1], ef[2]} THEN end1
                    ELSE IF ec2 \in {et[1], et[2]}
                    THEN (IF ec2 = et[1] THEN et[1] ELSE et[2])
                    ELSE ec2
      IN  [raised |-> FALSE, travel_start |-> start2, travel_end |-> end2]

\* lines 110-139; map(math.radians, None) raises TypeError
calculate_bearing_raises(start_coords, end_coords) ==
    start_coords = NoCoords \/ end_coords = NoCoords
calculate_bearing(start_coords, end_coords) == bearing_of(start_coords, end_coords)

\* lines 356-395 for a LinkIndex attrs: the features one row adds; an
\* exception of the fallback is caught at lines 393-395 and the row skipped
process_row_with(attrs, row) ==
    LET found == SelectSeq([j \in 1..Len(attrs) |-> j],
                           LAMBDA j : attrs[j].linkId = row.link_id)
    IN  IF found = <<>> THEN <<>>
        ELSE
          LET a == attrs[found[1]] IN
          IF a.travel_start = NoCoords \/ a.travel_end = NoCoords
          THEN LET ep == get_travel_endpoints(found[1], attrs) IN
               IF ep.raised \/ calculate_bearing_raises(ep.travel_start,
                                                        ep.travel_end)
               THEN <<>>
               ELSE interpolate_trajectory(
                        row, ep.travel_start, ep.travel_end,
                        calculate_bearing(ep.travel_start, ep.travel_end))
          ELSE interpolate_trajectory(row, a.travel_start, a.travel_end,
                                      a.bearing)

\* lines 351-399 for a LinkIndex attrs
process_parquet_chunk_with(attrs, chunk_df) ==
    Concat([i \in 1..Len(chunk_df) |-> process_row_with(attrs, chunk_df[i])])

\* a triangle of nodes at PointA, PointB and PointC and a link back
EndpointNodes == { <<1, 2>>, <<2, 3>>, <<3, 1>>, <<2, 1>> }

\* LineStrings between the three points, drawn in either direction
EndpointGeometries ==
    { LineString(<<PointA, PointB>>), LineString(<<PointB, PointA>>),
      LineString(<<PointB, PointC>>), LineString(<<PointC, PointA>>),
      Polygon }

\* a network and one Traversal of one of its links are chosen
InitEndpoints ==
    /\ Stage1Idle
    /\ HeatmapIdle
    /\ DriverIdle
    /\ \E n \in 1..MaxLinks :
       \E f \in [1..n -> EndpointNodes \X EndpointGeometries] :
           network_df = [i \in 1..n |-> network_row(i, f[i][1], f[i][2])]
    /\ built = NotBuilt
    /\ disk = <<>>
    /\ clock = 0
    /\ loaded = NotLoaded
    /\ \E l \in {"L1", "L2"} :
           table = << WithRow([person |-> "A", link_id |-> l, time_enter |-> 1,
                               time_leave |-> 2, interval_id |-> 0], 1) >>
    /\ export_chunk_size = 1
    /\ output_formats = {}
    /\ epc = "idle"
    /\ batch_pos = 1
    /\ eworkers = [w \in 1..NumWorkers |-> Idle]
    /\ eresults = <<>>
    /\ writers = NoWriters
    /\ files = NoFiles

\* main_pipeline.py line 373, with either value of precompute_endpoints
BuildIndexWith(precompute_endpoints) ==
    /\ built.status = "none"
    /\ built' = build_link_attributes(network_df, precompute_endpoints)
    /\ UNCHANGED <<network_df, disk, clock, loaded, stages_vars, driver_vars>>

\* parquet_to_animation.py lines 480-481: the table is processed with the
\* LinkIndex that was built
ProcessChunk ==
    /\ built.status = "built"
    /\ epc = "idle"
    /\ eresults' = <<process_parquet_chunk_with(built.link_attrs, table)>>
    /\ epc' = "done"
    /\ UNCHANGED <<table, export_chunk_size, output_formats, batch_pos,
                   eworkers, writers, files>>
    /\ UNCHANGED <<stage1_vars, heatmap_vars, network_vars, driver_vars>>

NextEndpoints ==
    \/ \E p \in BOOLEAN : BuildIndexWith(p)
    \/ ProcessChunk

SpecEndpoints == InitEndpoints /\ [][NextEndpoints]_vars

\* ------------------------------------------------------------ properties

\* every Traversal returned by a worker or written to the file
AllRows == written \o Concat(results)
Emitted == Range(AllRows)

Window(t) == time_intervals[t.interval_id + 1]
Contains(i, time) ==
    time_intervals[i][1] <= time /\ time <= time_intervals[i][2]

\* C1: every emitted Traversal has 0 <= interval_id < |windows| and its
\* time_enter lies inside windows[interval_id] (both ends inclusive).
C1_IntervalContainsEnter ==
    \A t \in Emitted :
        /\ 0 <= t.interval_id
        /\ t.interval_id < Len(time_intervals)
        /\ Window(t)[1] <= t.time_enter
        /\ t.time_enter <= Window(t)[2]

\* a Traversal of the second of two overlapping windows has been written
C1_Witness ==
    /\ Len(time_intervals) = 2
    /\ \E t \in Range(written) :
          /\ t.interval_id = 1
          /\ ~Contains(1, t.time_enter)
          /\ Window(t)[1] <= time_intervals[1][2]

\* C2: time_leave of every emitted Traversal is the minimum of the paired
\* LeaveLink's time and the end of its window, so it never exceeds the end.
C2_LeaveClipped ==
    \A t \in Emitted :
        /\ t.time_leave = Min(IntOf(log[t.leave].time), Window(t)[2])
        /\ t.time_leave <= Window(t)[2]

\* a written Traversal whose LeaveLink lies beyond the end of its window
C2_Witness ==
    \E t \in Range(written) :
        /\ IntOf(log[t.leave].time) > Window(t)[2]
        /\ t.time_leave = Window(t)[2]

\* C3: every emitted Traversal has time_enter <= time_leave, whatever the
\* times of the paired records.
C3_EnterNotAfterLeave == \A t \in Emitted : t.time_enter <= t.time_leave

\* C4: every emitted Traversal has its link in valid_links, and no Traversal
\* is built from records whose link is outside valid_links.
C4_LinkInIndex ==
    \A t \in Emitted :
        /\ t.link_id \in valid_links
        /\ log[t.enter].link \in valid_links
        /\ log[t.leave].link \in valid_links

\* the run is over, the log holds a matched pair inside a window on a link
\* outside valid_links, and nothing was written
C4_Witness ==
    /\ mpc = "done"
    /\ written = <<>>
    /\ \E i, j \in DOMAIN log :
        /\ i < j
        /\ log[i].type = "EnterLink" /\ log[j].type = "LeaveLink"
        /\ log[i].person = log[j].person
        /\ log[i].link = "Lx" /\ log[j].link = "Lx"
        /\ time_ok(log[i]) /\ time_ok(log[j])
        /\ \E w \in DOMAIN time_intervals : Contains(w, IntOf(log[i].time))

\* C5: the interval of an emitted Traversal is the first window, in
\* configured order, that contains the EnterLink's time; a pair whose
\* EnterLink's time lies in no window emits nothing.
C5_FirstWindowWins ==
    \A t \in Emitted :
        LET time == IntOf(log[t.enter].time) IN
        /\ Contains(t.interval_id + 1, time)
        /\ \A i \in DOMAIN time_intervals :
              Contains(i, time) => t.interval_id + 1 <= i

\* a written Traversal whose time_enter lies in both of two distinct windows
C5_Witness ==
    /\ Len(time_intervals) = 2
    /\ time_intervals[1] # time_intervals[2]
    /\ \E t \in Range(written) :
          /\ t.interval_id = 0
          /\ \A i \in DOMAIN time_intervals : Contains(i, t.time_enter)

\* the chunks the reader has put on the queue that are still being handled
ChunksInFlight ==
    { queue[i].chunk : i \in { k \in DOMAIN queue : ~queue[k].none } }
    \cup Range(tasks)
    \cup { running[w].chunk : w \in { v \in 1..NumWorkers : running[v].busy } }

\* the records that have left the reader's buffer of pending EnterLinks
HandedOver ==
    { e.idx : e \in Range(event_list) \cup UNION { Range(c) : c \in ChunksInFlight } }

\* the columns of a Traversal, without the history fields
Columns(t) ==
    [person |-> t.person, link_id |-> t.link_id, time_enter |-> t.time_enter,
     time_leave |-> t.time_leave, interval_id |-> t.interval_id]

\* the multiset of the Traversals of a sequence of rows
RowBag(rows) ==
    [r \in { Columns(rows[i]) : i \in DOMAIN rows } |->
        Cardinality({ i \in DOMAIN rows : Columns(rows[i]) = r })]

\* C6: every emitted Traversal is built from an EnterLink record and a later
\* LeaveLink record of the log that carry its person and link, its time_enter
\* is the EnterLink's time, and no record of the log is part of two emitted
\* Traversals.
C6_RealMatchedPair ==
    /\ \A t \in Emitted :
        /\ t.enter \in DOMAIN log /\ t.leave \in DOMAIN log
        /\ t.enter < t.leave
        /\ log[t.enter].type = "EnterLink"
        /\ log[t.leave].type = "LeaveLink"
        /\ log[t.enter].person = t.person /\ log[t.leave].person = t.person
        /\ log[t.enter].link = t.link_id /\ log[t.leave].link = t.link_id
        /\ time_ok(log[t.enter])
        /\ t.time_enter = IntOf(log[t.enter].time)
    /\ \A i, j \in DOMAIN AllRows :
        i # j => {AllRows[i].enter, AllRows[i].leave}
                 \cap {AllRows[j].enter, AllRows[j].leave} = {}

\* a written Traversal whose EnterLink was held over a chunk boundary: a
\* LeaveLink of another key lies between its two records and chunk_size is 1
C6_Witness ==
    /\ chunk_size = 1
    /\ \E t \in Range(written) :
        /\ t.enter + 1 < t.leave
        /\ log[t.enter + 1].type = "LeaveLink"

\* an EnterLink that no later LeaveLink of its (person, link) follows, the
\* two attributes read as the reader reads them
Unpaired(i) ==
    /\ log[i].type = "EnterLink"
    /\ ~ \E j \in DOMAIN log :
          /\ j > i
          /\ log[j].type = "LeaveLink"
          /\ reader_key(log[j]) = reader_key(log[i])

\* C7: an EnterLink with no later LeaveLink of the same (person, link) never
\* leaves the reader's pending buffer (it is in no chunk) and is the
\* EnterLink of no emitted Traversal.
C7_UnpairedEnterDropped ==
    \A i \in DOMAIN log :
        Unpaired(i) =>
            /\ i \notin HandedOver
            /\ \A t \in Emitted : t.enter # i /\ t.leave # i

\* the run is over, something was written, and a well-formed unpaired
\* EnterLink of a link of the network is still in the pending buffer
C7_Witness ==
    /\ mpc = "done"
    /\ written # <<>>
    /\ \E i \in DOMAIN log :
        /\ Unpaired(i)
        /\ time_ok(log[i])
        /\ log[i].link \in valid_links
        /\ \E e \in Range(pending_events) : e.idx = i

\* in the chunk c, every EnterLink is followed by the LeaveLink of its key,
\* with only EnterLinks of that key in between
PairsWhole(c) ==
    \A p \in DOMAIN c :
        c[p].type = "EnterLink" =>
            \E q \in (p + 1)..Len(c) :
                /\ c[q].type = "LeaveLink"
                /\ reader_key(c[q]) = reader_key(c[p])
                /\ \A r \in (p + 1)..(q - 1) :
                      /\ c[r].type = "EnterLink"
                      /\ reader_key(c[r]) = reader_key(c[p])

\* C8: in every chunk put on the queue each EnterLink is followed, in the
\* same chunk, by the LeaveLink of the same (person, link) that released it.
C8_PairsNeverSplit == \A c \in ChunksInFlight : PairsWhole(c)

\* two chunks are queued and the second holds an EnterLink read before a
\* record of the first: it was held over the chunk boundary
C8_Witness ==
    /\ Len(queue) >= 2
    /\ ~queue[1].none /\ ~queue[2].none
    /\ \E e \in Range(queue[2].chunk), f \in Range(queue[1].chunk) :
        e.type = "EnterLink" /\ e.idx < f.idx

\* C9: when the run is over, the Traversals written are those a run with the
\* same chunk_size writes for the log without its records whose time is
\* missing or not an integer.
C9_BadTimeAsIfAbsent ==
    mpc = "done" =>
        RowBag(written) = RowBag(stage1_rows(SelectSeq(log, time_ok), chunk_size))

HasAll(event) ==
    event.type # NoAttr /\ event.person # NoAttr /\ event.link # NoAttr

\* C10: no emitted Traversal has a missing person or link_id, and none is
\* built from a record that lacks type, person or link.
C10_NoMissingFields ==
    \A t \in Emitted :
        /\ t.person # NoAttr
        /\ t.link_id # NoAttr
        /\ HasAll(log[t.enter]) /\ HasAll(log[t.leave])

\* model consistency: the rows written by a finished run are the rows of
\* stage1_rows on the same log
RunMatchesStage1 ==
    mpc = "done" => RowBag(written) = RowBag(stage1_rows(log, chunk_size))

\* ----------------------------------------------------- stage 1 under load

RECURSIVE SeqSum(_)
SeqSum(f) == IF f = <<>> THEN 0 ELSE Len(Head(f)) + SeqSum(Tail(f))

\* events held by stage 1: the reader's pending buffer and chunk, the chunks
\* on the queue, dispatched, being filtered, and the records awaiting the
\* writer
Held ==
    Len(pending_events) + Len(event_list)
    + SeqSum([i \in 1..Len(queue) |-> queue[i].chunk])
    + SeqSum(tasks)
    + SeqSum([w \in 1..NumWorkers |-> running[w].chunk])
    + SeqSum(results)

\* C11: every execution of stage 1 eventually completes or aborts with an
\* error returned to the caller, also when the reader fails before the
\* sentinel: as long as the main process has neither completed nor aborted,
\* some step of stage 1 is possible
C11_CompletesOrAborts ==
    mpc \in {"done", "aborted"} \/ ENABLED NextFaulty

\* C13: the events stage 1 holds in memory are bounded by a function of
\* chunk_size, N and the queue capacity only: chunk_size events for each
\* chunk that can be in flight
C13_HeldBounded == Held <= chunk_size * InFlightChunks

\* every EnterLink whose LeaveLink has not been read stays in pending_events
PendingHoldsUnpaired ==
    (\A i \in 1..(rpos - 1) : log[i].type = "EnterLink")
        => Len(pending_events) = rpos - 1

\* ------------------------------------------------------ stage 2: the sinks

\* the points a sink holds, in file order
SinkPoints(fmt) ==
    CASE fmt = "geojson" ->
            LET fs == SelectSeq(files.geojson, LAMBDA t : t.tok = "feature")
            IN [i \in 1..Len(fs) |-> flat(fs[i].feature)]
      [] fmt = "csv" ->
            LET rs == SelectSeq(files.csv, LAMBDA t : t.tok = "row")
            IN [i \in 1..Len(rs) |-> rs[i].r]
      [] fmt = "parquet" -> files.parquet

\* the points of the i-th row of the table in a sink
PointsOf(fmt, i) == SelectSeq(SinkPoints(fmt), LAMBDA p : p.row = i)

InIndex(r) == r.link_id \in DOMAIN link_attrs
HasEndpoints(r) ==
    /\ InIndex(r)
    /\ link_attrs[r.link_id].travel_start # NoCoords
    /\ link_attrs[r.link_id].travel_end # NoCoords

\* the sink holds one point per second of the row, rendered from the row
OnePointPerSecond(fmt, i) ==
    LET r == table[i]
        pts == PointsOf(fmt, i)
        time_delta == r.time_leave - r.time_enter
    IN
    /\ Len(pts) = time_delta + 1
    /\ \A k \in 0..time_delta :
        /\ pts[k + 1].timestamp = time_to_timestamp(r.time_enter + k)
        /\ pts[k + 1].angle = link_attrs[r.link_id].bearing
        /\ pts[k + 1].person_id = r.person
        /\ pts[k + 1].interval_id = r.interval_id

\* C12: when a stage aborts after it started writing, every sink it opened
\* is closed and its outer container is closed: the GeoJSON text ends with
\* the closing of the FeatureCollection, the Parquet writer is closed
C12_SinksClosedOnAbort ==
    /\ epc = "aborted" =>
        /\ writers.geojson # "open"
        /\ writers.csv # "open"
        /\ "geojson" \in files.created =>
            files.geojson[Len(files.geojson)].tok = "close"
    /\ mpc = "aborted" => writer # "open"

\* on abort stage 1 closes the Parquet writer and stage 2 closes its handles
HandlesClosedOnAbort ==
    /\ epc = "aborted" => writers.geojson # "open" /\ writers.csv # "open"
    /\ mpc = "aborted" => writer # "open"

\* C14: a Traversal with time_leave > time_enter whose link is in the
\* LinkIndex yields exactly time_leave - time_enter + 1 points; the k-th has
\* timestamp render(time_enter + k) and all carry the link's bearing, the
\* person and the interval_id
C14_PointPerSecond ==
    epc = "done" =>
        \A fmt \in output_formats : \A i \in 1..Len(table) :
            (InIndex(table[i]) /\ table[i].time_leave > table[i].time_enter)
                => OnePointPerSecond(fmt, i)

\* the same for the links that carry travel_start and travel_end
PointPerSecondWithEndpoints ==
    epc = "done" =>
        \A fmt \in output_formats : \A i \in 1..Len(table) :
            (HasEndpoints(table[i]) /\ table[i].time_leave > table[i].time_enter)
                => OnePointPerSecond(fmt, i)

PointPerSecondWitness ==
    /\ epc = "done"
    /\ output_formats # {}
    /\ \E i \in 1..Len(table) :
        HasEndpoints(table[i]) /\ table[i].time_leave > table[i].time_enter

C16_NoPointWhenNotPositive ==
    \A fmt \in output_formats : \A i \in 1..Len(table) :
        table[i].time_leave - table[i].time_enter <= 0
            => PointsOf(fmt, i) = <<>>

C16_Witness ==
    /\ epc = "done"
    /\ output_formats # {}
    /\ \E i \in 1..Len(table) :
        HasEndpoints(table[i]) /\ table[i].time_leave < table[i].time_enter

\* C17: in every sink the points of one Traversal appear in strictly
\* increasing k, at every moment of the run and for every completion order
C17_IncreasingWithinTraversal ==
    \A fmt \in output_formats : \A i \in 1..Len(table) :
        LET pts == PointsOf(fmt, i) IN
        \A a \in 1..Len(pts) : \A b \in 1..Len(pts) :
            a < b => pts[a].k < pts[b].k

\* two Traversals with several points each, the later row written first
C17_Witness ==
    /\ epc = "done"
    /\ \E fmt \in output_formats :
        LET pts == SinkPoints(fmt) IN
        /\ Len(pts) >= 4
        /\ pts[1].row = 2
        /\ pts[2].row = 2
        /\ pts[Len(pts)].row = 1
        /\ pts[Len(pts) - 1].row = 1

\* ------------------------------------------------- stage 3: the heatmap

\* the rows whose link is a key of the LinkIndex
Known(d) == SelectSeq(d, InIndex)

RangeGiven == time_range.start_time # NoTime /\ time_range.end_time # NoTime

\* the Traversals on link l that are active at timepoint t
ActiveOn(l, t) ==
    { i \in 1..Len(df) :
        /\ df[i].link_id = l
        /\ df[i].time_enter <= t
        /\ t < df[i].time_leave }

\* the cells stage 3 collects for table d, as a set
CellsFor(d) ==
    Range(process_timepoint_batch(
            heat_timepoints(start_of(d, time_range), end_of(d, time_range),
                            interval_seconds), d))

\* stage 2: rows on unknown links leave no point and the sinks hold what the
\* other rows alone produce
ExportIgnoresUnknown ==
    epc = "done" =>
        \A fmt \in output_formats :
            /\ \A i \in 1..Len(table) :
                ~InIndex(table[i]) => PointsOf(fmt, i) = <<>>
            /\ Range(SinkPoints(fmt)) = Range(process_parquet_chunk(Known(table)))

\* stage 3: no cell carries an unknown link and the run does not fail on one
NoCellForUnknown ==
    /\ \A c \in Range(all_records) : c.link_id \in DOMAIN link_attrs
    /\ hpc = "failed" => df = <<>>

\* C18 as stated: in stages 2 and 3 a Traversal whose link is not in the
\* LinkIndex produces no point and no cell, raises no error and does not
\* change the output produced for the other Traversals
C18_UnknownLinkInert ==
    /\ ExportIgnoresUnknown
    /\ NoCellForUnknown
    /\ hpc = "done" =>
        IF Known(df) = <<>> THEN all_records = <<>>
        ELSE Range(all_records) = CellsFor(Known(df))

\* C18 amended: the same, where in stage 3 the output for the other
\* Traversals is unchanged when start_time and end_time are given (a range
\* taken from the table also spans the rows on unknown links)
C18_UnknownLinkInertGivenRange ==
    /\ ExportIgnoresUnknown
    /\ NoCellForUnknown
    /\ (hpc = "done" /\ RangeGiven) =>
        Range(all_records) = CellsFor(Known(df))

\* a given range, a row on an unknown link that is active at a timepoint
\* and a cell for another row
C18_Witness ==
    /\ hpc = "done"
    /\ RangeGiven
    /\ all_records # <<>>
    /\ \E k \in 1..Len(timepoints) : ActiveOn("Lx", timepoints[k]) # {}

\* C19 as stated: the vehicle_count of the cell (l, t) is the number of
\* Traversals with link_id = l and time_enter <= t < time_leave, and every
\* link of the LinkIndex with at least one such Traversal has a cell at t
C19_CellCounts ==
    hpc = "done" =>
        /\ \A c \in Range(all_records) :
            c.vehicle_count = Cardinality(ActiveOn(c.link_id, c.timepoint_seconds))
        /\ \A k \in 1..Len(timepoints) : \A l \in DOMAIN link_attrs :
            ActiveOn(l, timepoints[k]) # {} =>
                \E c \in Range(all_records) :
                    c.link_id = l /\ c.timepoint_seconds = timepoints[k]

\* the same for the links that carry a center
CellCountsWithCenter ==
    hpc = "done" =>
        /\ \A c \in Range(all_records) :
            c.vehicle_count = Cardinality(ActiveOn(c.link_id, c.timepoint_seconds))
        /\ \A k \in 1..Len(timepoints) : \A l \in DOMAIN link_attrs :
            (ActiveOn(l, timepoints[k]) # {} /\ link_attrs[l].center # NoCoords) =>
                \E c \in Range(all_records) :
                    c.link_id = l /\ c.timepoint_seconds = timepoints[k]

CellCountsWitness ==
    /\ hpc = "done"
    /\ \E c \in Range(all_records) : c.vehicle_count = 2

\* C20: for start_time <= end_time and S >= 1 the timepoints are
\* start_time, start_time + S, ... up to and including the first one that
\* is >= end_time, and none beyond it
C20_TimepointsCoverRange ==
    hpc \in {"collect", "done"} =>
        LET t0 == start_of(df, time_range)
            t1 == end_of(df, time_range)
            n == Len(timepoints)
        IN t0 <= t1 =>
            /\ n >= 1
            /\ timepoints[1] = t0
            /\ timepoints[n] >= t1
            /\ \A i \in 1..(n - 1) :
                /\ timepoints[i + 1] = timepoints[i] + interval_seconds
                /\ timepoints[i] < t1

\* the last timepoint lies beyond end_time
C20_Witness ==
    /\ hpc = "done"
    /\ Len(timepoints) >= 2
    /\ timepoints[Len(timepoints)] > end_of(df, time_range)

\* ------------------------------------------ the heatmap-counting scenario

\* the (link, count) pairs of the cells collected for time t
CellsAtTime(t) ==
    { <<c.link_id, c.vehicle_count>> :
        c \in { r \in Range(all_records) : r.timepoint_seconds = t } }

\* C21 as stated: with Traversals (A,L1,100,200), (B,L1,150,180),
\* (C,L2,160,170), S = 35 and range [100,200] the cells at t = 165 are
\* (L1, 2) and (L2, 1), at t = 100 (L1, 1), at t = 135 (L1, 1) and at
\* t = 170 exactly (L1, 1)
C21_ScenarioCells ==
    hpc = "done" =>
        /\ CellsAtTime(165) = { <<"L1", 2>>, <<"L2", 1>> }
        /\ CellsAtTime(100) = { <<"L1", 1>> }
        /\ CellsAtTime(135) = { <<"L1", 1>> }
        /\ CellsAtTime(170) = { <<"L1", 1>> }

\* C21 amended: the timepoints are 100, 135, 170 and 205; the cells are
\* (L1, 1) at t = 100, (L1, 1) at t = 135 and (L1, 2) at t = 170, each
\* once; there is no cell at t = 165 or t = 205 and none for L2
C21_ScenarioCellsOnGrid ==
    hpc = "done" =>
        /\ timepoints = <<100, 135, 170, 205>>
        /\ CellsAtTime(100) = { <<"L1", 1>> }
        /\ CellsAtTime(135) = { <<"L1", 1>> }
        /\ CellsAtTime(170) = { <<"L1", 2>> }
        /\ CellsAtTime(165) = {}
        /\ CellsAtTime(205) = {}
        /\ Len(all_records) = 3

\* the scenario has run to its end, the batches collected out of order
C21_Witness ==
    /\ hpc = "done"
    /\ Len(all_records) = 3
    /\ all_records[1].timepoint_seconds = 170

\* ------------------------------------------------ the LinkIndex build

\* the links the build computed derived values for
Derived == { i \in 1..Len(built.link_attrs) : built.link_attrs[i].derived }

\* link j ends where link i starts and is neither i nor a U-turn of i
PrevCandidate(i, j) ==
    /\ j # i
    /\ built.link_attrs[j].to = built.link_attrs[i].from
    /\ built.link_attrs[j].from # built.link_attrs[i].to

\* link j starts where link i ends and is neither i nor a U-turn of i
NextCandidate(i, j) ==
    /\ j # i
    /\ built.link_attrs[j].from = built.link_attrs[i].to
    /\ built.link_attrs[j].to # built.link_attrs[i].from

\* C22: once the build has returned, the previous link of every link L it
\* computed is the first link P # L in iteration order that ends at
\* from_node(L) and does not start at to_node(L), the next link is the first
\* link N # L that starts at to_node(L) and does not end at from_node(L), and
\* the neighbour is absent exactly when no such link exists
C22_FirstNonUturnNeighbour ==
    built.status = "built" =>
        \A i \in Derived :
            LET n == Len(built.link_attrs)
                p == built.link_attrs[i].previous_link
                x == built.link_attrs[i].next_link
            IN  /\ IF \E j \in 1..n : PrevCandidate(i, j)
                   THEN /\ p \in 1..n
                        /\ PrevCandidate(i, p)
                        /\ \A j \in 1..(p - 1) : ~PrevCandidate(i, j)
                   ELSE p = NoLinkFound
                /\ IF \E j \in 1..n : NextCandidate(i, j)
                   THEN /\ x \in 1..n
                        /\ NextCandidate(i, x)
                        /\ \A j \in 1..(x - 1) : ~NextCandidate(i, j)
                   ELSE x = NoLinkFound

\* a built index in which a link has a U-turn link ahead of its previous
\* link in iteration order, and the later link was chosen
C22_Witness ==
    /\ built.status = "built"
    /\ \E i \in Derived :
           LET p == built.link_attrs[i].previous_link
           IN  /\ p # NoLinkFound
               /\ \E j \in 1..(p - 1) :
                      /\ j # i
                      /\ built.link_attrs[j].to = built.link_attrs[i].from
                      /\ built.link_attrs[j].from = built.link_attrs[i].to

\* C23: for every link the build computed derived values for, travel_start
\* equals the first coordinate of the link's own geometry and travel_end its
\* last coordinate, whatever the neighbours are
C23_TravelEndpointsAreEdgeEndpoints ==
    built.status = "built" =>
        \A i \in Derived :
            /\ built.link_attrs[i].travel_start
                   = edge_start(built.link_attrs[i].geometry)
            /\ built.link_attrs[i].travel_end
                   = edge_end(built.link_attrs[i].geometry)

\* a built index with a link whose previous link ends at the link's first
\* coordinate and starts elsewhere
C23_Witness ==
    /\ built.status = "built"
    /\ \E i \in Derived :
           LET p == built.link_attrs[i].previous_link
               ec1 == edge_start(built.link_attrs[i].geometry)
           IN  /\ p # NoLinkFound
               /\ built.link_attrs[p].geometry.geom_type = "LineString"
               /\ edge_end(built.link_attrs[p].geometry) = ec1
               /\ edge_start(built.link_attrs[p].geometry) # ec1

\* C24: every bearing stored in the LinkIndex is an integer b with
\* 0 <= b < 360
C24_BearingBelow360 ==
    built.status = "built" =>
        \A i \in Derived : built.link_attrs[i].bearing \in 0..359

\* C25: every key of the LinkIndex has a LineString or MultiLineString
\* geometry with at least two distinct coordinate tuples and carries the
\* derived travel_start, travel_end, bearing and center
C25_KeysSupportedAndDerived ==
    built.status = "built" =>
        \A i \in 1..Len(built.link_attrs) :
            LET g == built.link_attrs[i].geometry
            IN  /\ g.geom_type \in {"LineString", "MultiLineString"}
                /\ \E k, l \in 1..Len(g.geoms) :
                       \E a \in 1..Len(g.geoms[k]), b \in 1..Len(g.geoms[l]) :
                           g.geoms[k][a] # g.geoms[l][b]
                /\ built.link_attrs[i].derived

\* ------------------------------------------------------ the network cache

\* the last call of load_network_cached found the source file
SourcePresent == loaded.gpkg_path \in DOMAIN loaded.before

\* the last call found a cache file at least as new as the source file
CacheFresh ==
    /\ get_cache_path(loaded.gpkg_path) \in DOMAIN loaded.before
    /\ loaded.before[get_cache_path(loaded.gpkg_path)].mtime
           >= loaded.before[loaded.gpkg_path].mtime

C27_AbsentSourceRaises ==
    (loaded.status # "none" /\ ~SourcePresent) =>
        /\ loaded.status = "raised"
        /\ loaded.table = NoTable

\* a call without force_refresh that raised with a cache file on disk
C27_Witness ==
    /\ loaded.status = "raised"
    /\ ~loaded.force_refresh
    /\ ~SourcePresent
    /\ get_cache_path(loaded.gpkg_path) \in DOMAIN loaded.before

\* ------------------------------------------------------------ main()

\* C28: whenever a stage has been started, and when main has returned 0, the
\* build has returned the whole LinkIndex, and the link_attrs and valid_links
\* main holds have the keys and the per-link values the build returned
C28_IndexBuiltBeforeStagesAndKept ==
    (main.started # <<>> \/ main.exit_code = 0) =>
        /\ built.status = "built"
        /\ main.link_attrs = built.link_attrs
        /\ main.valid_links = keys_of(built.link_attrs)
        /\ main.link_attrs = build_link_attributes_dict(network_df).link_attrs

\* main has returned 0 after the three stages ran with a LinkIndex of two
\* links
C28_Witness ==
    /\ main.exit_code = 0
    /\ main.started = <<1, 2, 3>>
    /\ Len(main.link_attrs) = 2
    /\ main.link_attrs[1].derived

\* the stages the configuration enables
Enabled == { k \in 1..3 : stage_enabled(main.config, k) }

\* C29: main returns 0 only when the configuration and the network were
\* loaded and every enabled stage completed, nothing having raised; when
\* something raises main has returned non-zero in the same step; and no
\* stage after a failed stage is started
C29_ZeroOnlyOnFullSuccess ==
    /\ main.exit_code = 0 =>
           /\ main.config_valid
           /\ built.status = "built"
           /\ Enabled \subseteq main.completed
           /\ main.raised = "none"
    /\ main.raised # "none" =>
           /\ main.pc = "returned"
           /\ main.exit_code \notin {0, NoExit}
    /\ \A k \in 1..3 :
           main.raised = StagePc(k) =>
               /\ main.started # <<>>
               /\ main.started[Len(main.started)] = k
               /\ \A i \in 1..Len(main.started) : main.started[i] <= k

\* stage 2 raised in a run whose configuration enables stage 3
C29_Witness ==
    /\ main.raised = "stage2"
    /\ main.config.heatmap_enabled
    /\ main.started = <<1, 2>>
    /\ main.exit_code = 1

\* ------------------------------------------ generate_snapshot_intervals

\* the returned list is exactly the windows (s, s + duration) with
\* s = start + k * frequency, k = 0, 1, 2, ..., that end at or before end
SnapshotsExact ==
    LET s0 == snap.start_seconds
        e  == snap.end_seconds
        f  == snap.frequency_seconds
        d  == snap.duration_seconds
        w  == snap.intervals
    IN  /\ \A i \in 1..Len(w) :
               /\ w[i] = <<s0 + (i - 1) * f, s0 + (i - 1) * f + d>>
               /\ s0 <= w[i][1]
               /\ w[i][2] <= e
        /\ s0 + Len(w) * f + d > e
        /\ \A i, j \in 1..Len(w) : i < j => w[i][1] < w[j][1]
        /\ s0 + d > e => w = <<>>

\* C30: generate_snapshot_intervals with frequency >= 1 and duration >= 1
\* returns, and what it returns is, in increasing order of start, exactly
\* the windows (s, s + duration), s = start + k * frequency, with
\* s + duration <= end, every one within [start, end], and the empty list
\* when start + duration > end
C30_SnapshotWindows ==
    /\ <>(snap.pc = "returned")
    /\ [](snap.pc = "returned" => SnapshotsExact)

\* a call that returned several windows, the last one ending at end
C30_Witness ==
    /\ snap.pc = "returned"
    /\ Len(snap.intervals) >= 2
    /\ snap.intervals[Len(snap.intervals)][2] = snap.end_seconds

\* ------------------------------------------ stage 1: chunks and the writer

\* the chunks the reader makes of the whole log
AllChunks == reader_chunks(<<>>, <<>>, log, chunk_size)

\* the chunks the reader has put on the queue so far: every record read, and
\* the chunk no longer waiting in event_list for its put
PutChunks ==
    SelectSeq(AllChunks,
              LAMBDA c : /\ \A i \in DOMAIN c : c[i].idx < rpos
                         /\ ~(c = event_list /\ rpc \in {"read", "put"}))

\* the chunks on the queue, dispatched, and being filtered, slot by slot
InFlightSeq ==
    [i \in 1..Len(SelectSeq(queue, LAMBDA q : ~q.none)) |->
        SelectSeq(queue, LAMBDA q : ~q.none)[i].chunk]
    \o tasks
    \o [i \in 1..Len(SelectSeq(running, LAMBDA r : r.busy)) |->
        SelectSeq(running, LAMBDA r : r.busy)[i].chunk]

\* the multiset of the rows of a sequence, history fields included
FullBag(rows) ==
    [r \in Range(rows) |-> Cardinality({ i \in DOMAIN rows : rows[i] = r })]

\* how many sentinels are on the queue
SentinelsQueued == Cardinality({ k \in DOMAIN queue : queue[k].none })

\* C31: in a run in which nothing raises, every chunk put on the queue is in
\* one place only until a worker returns its records, the records returned
\* for the chunks put so far are awaiting the writer or written exactly once,
\* the sentinel is put once, after the last chunk, and the writer is closed
\* only when the records of every chunk of the log are written
C31_ChunksExactlyOnce ==
    LET inflight == InFlightSeq
        put == PutChunks
    IN  /\ \A i, j \in DOMAIN inflight : inflight[i] = inflight[j] => i = j
        /\ Range(inflight) \subseteq Range(put)
        /\ FullBag(written \o Concat(results) \o filter_chunks(inflight))
               = FullBag(filter_chunks(put))
        /\ SentinelsQueued + (IF fed THEN 1 ELSE 0)
               = (IF rpc = "done" THEN 1 ELSE 0)
        /\ \A k \in DOMAIN queue : queue[k].none => k = Len(queue)
        /\ rpc = "done" => put = AllChunks
        /\ (writer = "closed" \/ mpc \in {"cleanup", "done"}) =>
               /\ fed
               /\ inflight = <<>>
               /\ results = <<>>
               /\ FullBag(written) = FullBag(filter_chunks(AllChunks))

\* a finished run of two chunks or more whose rows were written and the
\* writer closed
C31_Witness ==
    /\ mpc = "done"
    /\ Len(AllChunks) >= 2
    /\ writer = "closed"
    /\ written # <<>>


\* ------------------------------------------ stage 1: chunking and the result
\* C32: when the run is over, the multiset of Traversals written is the one
\* filter_events_chunk yields when applied once to the whole log in document
\* order, whatever the chunk_size, the workers and their interleaving.
C32_ChunkingInvisible ==
    mpc = "done" => RowBag(written) = RowBag(filter_events_chunk(log))


\* ------------------------------------------ stage 1: the intermediate file
\* os.path.exists(output_path): a writer created the file, or it was there
output_exists == writer # "none" \/ written # <<>>

\* C33: when the run is over, the file at output_path exists and its rows are
\* the Traversals of this run, whatever the path held before the run.
C33_OutputIsThisRun ==
    mpc = "done" =>
        /\ output_exists
        /\ RowBag(written) = RowBag(stage1_rows(log, chunk_size))


\* ------------------------------------------ stage 1: repeated EnterLinks
\* the records i and j of the log carry the same person and the same link
SameKey(i, j) ==
    /\ Get(log[i], "person") = Get(log[j], "person")
    /\ Get(log[i], "link") = Get(log[j], "link")

\* C34: a Traversal pairs its LeaveLink with the most recent EnterLink of the
\* key before it: no EnterLink and no LeaveLink of that key lies between the
\* two records, so earlier EnterLinks of a run of several yield nothing and a
\* LeaveLink without an unpaired EnterLink before it yields nothing; no
\* LeaveLink is the LeaveLink of two Traversals.
C34_MostRecentEnter ==
    /\ \A t \in Emitted :
        \A k \in (t.enter + 1)..(t.leave - 1) :
            SameKey(k, t.enter) => log[k].type \notin {"EnterLink", "LeaveLink"}
    /\ \A i, j \in DOMAIN AllRows :
        AllRows[i].leave = AllRows[j].leave => i = j

\* the run is over; two EnterLinks of one key precede a LeaveLink of the key
\* and the Traversal written pairs the second EnterLink with the LeaveLink
C34_Witness ==
    /\ mpc = "done"
    /\ Len(log) = 3
    /\ log[1].type = "EnterLink" /\ log[2].type = "EnterLink"
    /\ log[3].type = "LeaveLink"
    /\ SameKey(1, 2) /\ SameKey(2, 3)
    /\ \E t \in Range(written) : t.enter = 2 /\ t.leave = 3
    /\ Len(written) = 1


\* --------------------------------- the network cache: sources of one stem
\* C35: a call of load_network_cached that returns the content of the cache
\* file without rewriting it returns rows that were cached from the source
\* file it was called with, never rows cached from another source file.
C35_RowsOfOwnSource ==
    (loaded.status = "returned" /\ ~loaded.rewrote) =>
        loaded.before[get_cache_path(loaded.gpkg_path)].source = loaded.gpkg_path


\* ------------------------------------------ stage 3: the timepoint batches
\* C36: the batches, in order, are the timepoints cut into slices, so every
\* timepoint is in exactly one batch; the records collected so far hold at
\* most one cell per (link_id, timepoint), each with vehicle_count >= 1; and
\* when every batch is in, the records are those of every timepoint once,
\* whatever the number of workers and the order in which batches come back.
C36_BatchesPartition ==
    hpc \in {"collect", "done"} =>
        /\ Concat(batches) = timepoints
        /\ \A i, j \in DOMAIN timepoints :
               timepoints[i] = timepoints[j] => i = j
        /\ \A i, j \in DOMAIN all_records :
               (/\ all_records[i].link_id = all_records[j].link_id
                /\ all_records[i].timepoint_seconds
                       = all_records[j].timepoint_seconds) => i = j
        /\ \A i \in DOMAIN all_records : all_records[i].vehicle_count >= 1
        /\ outstanding = {} =>
               FullBag(all_records)
                   = FullBag(process_timepoint_batch(timepoints, df))

\* every batch of three or more is in, a later batch came back before an
\* earlier one, and some cell counts two vehicles
C36_Witness ==
    /\ hpc = "done"
    /\ Len(batches) >= 3
    /\ \E i, j \in DOMAIN all_records :
        /\ i < j
        /\ all_records[i].timepoint_seconds > all_records[j].timepoint_seconds
    /\ \E i \in DOMAIN all_records : all_records[i].vehicle_count = 2


\* --------------------------------- stage 2: precomputed against on demand
\* C37: the points stage 2 emits for the table are the same with the
\* LinkIndex built with precompute_endpoints=True and with the one built
\* with precompute_endpoints=False.
C37_SamePointsEitherWay ==
    epc = "done" =>
        \A p \in BOOLEAN :
            build_link_attributes(network_df, p).status = "built" =>
                eresults = << process_parquet_chunk_with(
                                  build_link_attributes(network_df, p).link_attrs,
                                  table) >>


\* ------------------------------ the LinkIndex build: multi-chain neighbours
\* link i gets derived values and its previous or next link is a
\* MultiLineString
MultiChainNeighbour(net, i) ==
    /\ ~build_skips(net[i].geometry)
    /\ \/ /\ previous_link(net, i) # NoLinkFound
          /\ net[previous_link(net, i)].geometry.geom_type = "MultiLineString"
       \/ /\ next_link(net, i) # NoLinkFound
          /\ net[next_link(net, i)].geometry.geom_type = "MultiLineString"

\* C38: for a network in which the previous or next link of some link is a
\* MultiLineString, build_link_attributes_dict returns the LinkIndex and
\* does not raise.
C38_MultiChainNeighbourBuilds ==
    (/\ built.status # "none"
     /\ \E i \in 1..Len(network_df) : MultiChainNeighbour(network_df, i))
        => built.status = "built"


\* ------------------------------------------ stage 2: the sinks of a run
\* the features of the GeoJSON text, in file order
GeoFeatures ==
    LET tokens == SelectSeq(files.geojson, LAMBDA t : t.tok = "feature")
    IN  [i \in 1..Len(tokens) |-> tokens[i].feature]

\* C39: when stage 2 has completed and 'geojson' was requested, the GeoJSON
\* text is the opening, then the features with one separator between every
\* two and none elsewhere, then the closing (opening and closing alone when
\* there is no feature); the features are the points of the table's
\* Traversals, each once; the CSV rows after the header and the rows of the
\* Parquet file are the same points in the same order.
C39_SinksComplete ==
    (epc = "done" /\ "geojson" \in output_formats) =>
        LET text == files.geojson
            n == Len(GeoFeatures)
        IN  /\ Len(text) = (IF n = 0 THEN 2 ELSE 2 * n + 1)
            /\ text[1] = OpenToken
            /\ text[Len(text)] = CloseToken
            /\ \A i \in 1..n : text[2 * i] = FeatureToken(GeoFeatures[i])
            /\ \A i \in 1..(n - 1) : text[2 * i + 1] = SepToken
            /\ FullBag(GeoFeatures) = FullBag(process_parquet_chunk(table))
            /\ "csv" \in output_formats =>
                   files.csv = <<HeaderRow>>
                                   \o [i \in 1..n |-> CsvRow(GeoFeatures[i])]
            /\ "parquet" \in output_formats =>
                   files.parquet = [i \in 1..n |-> flat(GeoFeatures[i])]

\* a finished run with all three sinks whose second batch was written first:
\* six features, those of the second row of the table ahead of the first's
C39_Witness ==
    /\ epc = "done"
    /\ output_formats = {"geojson", "csv", "parquet"}
    /\ Len(GeoFeatures) = 6
    /\ GeoFeatures[1].row = 2
    /\ GeoFeatures[6].row = 1
    /\ Len(files.csv) = 7

====
